---- MODULE Spec2Model ----
(***************************************************************************)
(* AgriMitra backend: the LangChain service (chat context builder, image   *)
(* analysis, free-text response parser, suggestion heuristic) and the two  *)
(* chat routes that call it.                                               *)
(*                                                                         *)
(* A Python str is the sequence of the code points of its characters; the  *)
(* names of classes, enum members, routes and positions are TLA+ strings.  *)
(* Optional values are sequences of length 0 (None) or 1 (the value).      *)
(* A float that the code obtains as int/100 is kept as the integer number  *)
(* of hundredths.                                                          *)
(***************************************************************************)
EXTENDS Integers, Sequences, FiniteSets, TLC

VARIABLES
    pc,              \* position of the request being served
    request,         \* the request payload handed over by the HTTP layer
    messages,        \* the message list passed to chat_model.ainvoke
    llm_calls,       \* number of chat_model.ainvoke calls made for the request
    llm_outcome,     \* None, or how the awaited chat_model.ainvoke call ended
    response_text,   \* the completion handed to _parse_image_analysis
    analysis_result, \* what the service returned to the route
    suggested_actions, \* None, or what the last _get_suggested_actions call returned
    http_response,   \* what the route returned to the client
    tasks,           \* the requests served concurrently: one coroutine's state each
    running,         \* None, or the coroutine that holds the event loop
    settings,        \* core.config.settings, read once at import
    langchain_service, \* the module global of api/routes/chat.py
    constructed,     \* number of LangChainService instances constructed so far
    speech_config    \* speech_service.speech_config, shared by all speech requests

\* the state of the one request of the single-request specifications
request_vars ==
    <<pc, request, messages, llm_calls, llm_outcome, response_text, analysis_result,
      suggested_actions, http_response>>

\* the state of the process and of the requests it serves concurrently
process_vars == <<tasks, running, settings, langchain_service, constructed, speech_config>>

\* the process state apart from the requests in flight
process_state == <<running, settings, langchain_service, constructed, speech_config>>

vars == <<request_vars, process_vars>>

(***************************************************************************)
(* Python values                                                           *)
(***************************************************************************)
None == <<>>
Some(v) == <<v>>

\* response.content of a LangChain AIMessage is a str or a list of content
\* parts; the tag keeps which of the two Python types the value has.
StrContent(s) == [pytype |-> "str", text |-> s]
ListContent(s) == [pytype |-> "list", text |-> s]

(***************************************************************************)
(* str: a Python str is the sequence of the code points of its characters  *)
(***************************************************************************)
\* the printable ASCII characters that the literals of the code are written
\* with, in code order: from the space (32) to the underscore (95), and from
\* a (97) to the tilde (126)
PrintableLow == " !\"#$%&'()*+,-./0123456789:;<=>?@ABCDEFGHIJKLMNOPQRSTUVWXYZ[\\]^_"
PrintableHigh == "abcdefghijklmnopqrstuvwxyz{|}~"

\* ord() of those characters, of the newline and of the rupee sign
Ord ==
    [ch \in { SubSeq(PrintableLow, k, k) : k \in 1..Len(PrintableLow) }
            \cup { SubSeq(PrintableHigh, k, k) : k \in 1..Len(PrintableHigh) }
            \cup {"\n", "₹"} |->
        IF ch = "\n" THEN 10
        ELSE IF ch = "₹" THEN 8377
        ELSE IF \E k \in 1..Len(PrintableLow) : SubSeq(PrintableLow, k, k) = ch
        THEN 31 + (CHOOSE k \in 1..Len(PrintableLow) : SubSeq(PrintableLow, k, k) = ch)
        ELSE 96 + (CHOOSE k \in 1..Len(PrintableHigh) : SubSeq(PrintableHigh, k, k) = ch)]

\* the str that a literal of the code denotes
Lit(literal) == [i \in 1..Len(literal) |-> Ord[SubSeq(literal, i, i)]]

\* the empty str
EmptyStr == <<>>

CharAt(s, i) == s[i]

(***************************************************************************)
(* The Unicode character database as Python 3.11 holds it (Unicode 14.0):  *)
(* runs <<first, last>> of code points, and case mappings                  *)
(* <<first, last, step, delta>> that send every step-th code point c of    *)
(* the run to c + delta.                                                   *)
(***************************************************************************)
\* str.isspace(): what str.strip() and str.split() remove and \s matches
SpaceCodes ==
    { 9, 10, 11, 12, 13, 28, 29, 30, 31, 32, 133, 160, 5760, 8192, 8193, 8194, 8195, 8196, 8197, 8198, 8199, 8200, 8201, 8202, 8232, 8233, 8239, 8287, 12288 }

DigitRuns ==
    << <<48, 57>>, <<1632, 1641>>, <<1776, 1785>>, <<1984, 1993>>, <<2406, 2415>>, <<2534, 2543>>, <<2662, 2671>>, <<2790, 2799>>,
       <<2918, 2927>>, <<3046, 3055>>, <<3174, 3183>>, <<3302, 3311>>, <<3430, 3439>>, <<3558, 3567>>, <<3664, 3673>>, <<3792, 3801>>,
       <<3872, 3881>>, <<4160, 4169>>, <<4240, 4249>>, <<6112, 6121>>, <<6160, 6169>>, <<6470, 6479>>, <<6608, 6617>>, <<6784, 6793>>,
       <<6800, 6809>>, <<6992, 7001>>, <<7088, 7097>>, <<7232, 7241>>, <<7248, 7257>>, <<42528, 42537>>, <<43216, 43225>>, <<43264, 43273>>,
       <<43472, 43481>>, <<43504, 43513>>, <<43600, 43609>>, <<44016, 44025>>, <<65296, 65305>>, <<66720, 66729>>, <<68912, 68921>>, <<69734, 69743>>,
       <<69872, 69881>>, <<69942, 69951>>, <<70096, 70105>>, <<70384, 70393>>, <<70736, 70745>>, <<70864, 70873>>, <<71248, 71257>>, <<71360, 71369>>,
       <<71472, 71481>>, <<71904, 71913>>, <<72016, 72025>>, <<72784, 72793>>, <<73040, 73049>>, <<73120, 73129>>, <<92768, 92777>>, <<92864, 92873>>,
       <<93008, 93017>>, <<120782, 120831>>, <<123200, 123209>>, <<123632, 123641>>, <<125264, 125273>>, <<130032, 130041>> >>

CasedRuns ==
    << <<65, 90>>, <<97, 122>>, <<170, 170>>, <<181, 181>>, <<186, 186>>, <<192, 214>>, <<216, 246>>, <<248, 442>>,
       <<444, 447>>, <<452, 659>>, <<661, 696>>, <<704, 705>>, <<736, 740>>, <<837, 837>>, <<880, 883>>, <<886, 887>>,
       <<890, 893>>, <<895, 895>>, <<902, 902>>, <<904, 906>>, <<908, 908>>, <<910, 929>>, <<931, 1013>>, <<1015, 1153>>,
       <<1162, 1327>>, <<1329, 1366>>, <<1376, 1416>>, <<4256, 4293>>, <<4295, 4295>>, <<4301, 4301>>, <<4304, 4346>>, <<4349, 4351>>,
       <<5024, 5109>>, <<5112, 5117>>, <<7296, 7304>>, <<7312, 7354>>, <<7357, 7359>>, <<7424, 7615>>, <<7680, 7957>>, <<7960, 7965>>,
       <<7968, 8005>>, <<8008, 8013>>, <<8016, 8023>>, <<8025, 8025>>, <<8027, 8027>>, <<8029, 8029>>, <<8031, 8061>>, <<8064, 8116>>,
       <<8118, 8124>>, <<8126, 8126>>, <<8130, 8132>>, <<8134, 8140>>, <<8144, 8147>>, <<8150, 8155>>, <<8160, 8172>>, <<8178, 8180>>,
       <<8182, 8188>>, <<8305, 8305>>, <<8319, 8319>>, <<8336, 8348>>, <<8450, 8450>>, <<8455, 8455>>, <<8458, 8467>>, <<8469, 8469>>,
       <<8473, 8477>>, <<8484, 8484>>, <<8486, 8486>>, <<8488, 8488>>, <<8490, 8493>>, <<8495, 8500>>, <<8505, 8505>>, <<8508, 8511>>,
       <<8517, 8521>>, <<8526, 8526>>, <<8544, 8575>>, <<8579, 8580>>, <<9398, 9449>>, <<11264, 11492>>, <<11499, 11502>>, <<11506, 11507>>,
       <<11520, 11557>>, <<11559, 11559>>, <<11565, 11565>>, <<42560, 42605>>, <<42624, 42653>>, <<42786, 42887>>, <<42891, 42894>>, <<42896, 42954>>,
       <<42960, 42961>>, <<42963, 42963>>, <<42965, 42969>>, <<42997, 42998>>, <<43000, 43002>>, <<43824, 43866>>, <<43868, 43880>>, <<43888, 43967>>,
       <<64256, 64262>>, <<64275, 64279>>, <<65313, 65338>>, <<65345, 65370>>, <<66560, 66639>>, <<66736, 66771>>, <<66776, 66811>>, <<66928, 66938>>,
       <<66940, 66954>>, <<66956, 66962>>, <<66964, 66965>>, <<66967, 66977>>, <<66979, 66993>>, <<66995, 67001>>, <<67003, 67004>>, <<67456, 67456>>,
       <<67459, 67461>>, <<67463, 67504>>, <<67506, 67514>>, <<68736, 68786>>, <<68800, 68850>>, <<71840, 71903>>, <<93760, 93823>>, <<119808, 119892>>,
       <<119894, 119964>>, <<119966, 119967>>, <<119970, 119970>>, <<119973, 119974>>, <<119977, 119980>>, <<119982, 119993>>, <<119995, 119995>>, <<119997, 120003>>,
       <<120005, 120069>>, <<120071, 120074>>, <<120077, 120084>>, <<120086, 120092>>, <<120094, 120121>>, <<120123, 120126>>, <<120128, 120132>>, <<120134, 120134>>,
       <<120138, 120144>>, <<120146, 120485>>, <<120488, 120512>>, <<120514, 120538>>, <<120540, 120570>>, <<120572, 120596>>, <<120598, 120628>>, <<120630, 120654>>,
       <<120656, 120686>>, <<120688, 120712>>, <<120714, 120744>>, <<120746, 120770>>, <<120772, 120779>>, <<122624, 122633>>, <<122635, 122654>>, <<125184, 125251>>,
       <<127280, 127305>>, <<127312, 127337>>, <<127344, 127369>> >>

CaseIgnorableRuns ==
    << <<39, 39>>, <<46, 46>>, <<58, 58>>, <<94, 94>>, <<96, 96>>, <<168, 168>>, <<173, 173>>, <<175, 175>>,
       <<180, 180>>, <<183, 184>>, <<688, 879>>, <<884, 885>>, <<890, 890>>, <<900, 901>>, <<903, 903>>, <<1155, 1161>>,
       <<1369, 1369>>, <<1375, 1375>>, <<1425, 1469>>, <<1471, 1471>>, <<1473, 1474>>, <<1476, 1477>>, <<1479, 1479>>, <<1524, 1524>>,
       <<1536, 1541>>, <<1552, 1562>>, <<1564, 1564>>, <<1600, 1600>>, <<1611, 1631>>, <<1648, 1648>>, <<1750, 1757>>, <<1759, 1768>>,
       <<1770, 1773>>, <<1807, 1807>>, <<1809, 1809>>, <<1840, 1866>>, <<1958, 1968>>, <<2027, 2037>>, <<2042, 2042>>, <<2045, 2045>>,
       <<2070, 2093>>, <<2137, 2139>>, <<2184, 2184>>, <<2192, 2193>>, <<2200, 2207>>, <<2249, 2306>>, <<2362, 2362>>, <<2364, 2364>>,
       <<2369, 2376>>, <<2381, 2381>>, <<2385, 2391>>, <<2402, 2403>>, <<2417, 2417>>, <<2433, 2433>>, <<2492, 2492>>, <<2497, 2500>>,
       <<2509, 2509>>, <<2530, 2531>>, <<2558, 2558>>, <<2561, 2562>>, <<2620, 2620>>, <<2625, 2626>>, <<2631, 2632>>, <<2635, 2637>>,
       <<2641, 2641>>, <<2672, 2673>>, <<2677, 2677>>, <<2689, 2690>>, <<2748, 2748>>, <<2753, 2757>>, <<2759, 2760>>, <<2765, 2765>>,
       <<2786, 2787>>, <<2810, 2815>>, <<2817, 2817>>, <<2876, 2876>>, <<2879, 2879>>, <<2881, 2884>>, <<2893, 2893>>, <<2901, 2902>>,
       <<2914, 2915>>, <<2946, 2946>>, <<3008, 3008>>, <<3021, 3021>>, <<3072, 3072>>, <<3076, 3076>>, <<3132, 3132>>, <<3134, 3136>>,
       <<3142, 3144>>, <<3146, 3149>>, <<3157, 3158>>, <<3170, 3171>>, <<3201, 3201>>, <<3260, 3260>>, <<3263, 3263>>, <<3270, 3270>>,
       <<3276, 3277>>, <<3298, 3299>>, <<3328, 3329>>, <<3387, 3388>>, <<3393, 3396>>, <<3405, 3405>>, <<3426, 3427>>, <<3457, 3457>>,
       <<3530, 3530>>, <<3538, 3540>>, <<3542, 3542>>, <<3633, 3633>>, <<3636, 3642>>, <<3654, 3662>>, <<3761, 3761>>, <<3764, 3772>>,
       <<3782, 3782>>, <<3784, 3789>>, <<3864, 3865>>, <<3893, 3893>>, <<3895, 3895>>, <<3897, 3897>>, <<3953, 3966>>, <<3968, 3972>>,
       <<3974, 3975>>, <<3981, 3991>>, <<3993, 4028>>, <<4038, 4038>>, <<4141, 4144>>, <<4146, 4151>>, <<4153, 4154>>, <<4157, 4158>>,
       <<4184, 4185>>, <<4190, 4192>>, <<4209, 4212>>, <<4226, 4226>>, <<4229, 4230>>, <<4237, 4237>>, <<4253, 4253>>, <<4348, 4348>>,
       <<4957, 4959>>, <<5906, 5908>>, <<5938, 5939>>, <<5970, 5971>>, <<6002, 6003>>, <<6068, 6069>>, <<6071, 6077>>, <<6086, 6086>>,
       <<6089, 6099>>, <<6103, 6103>>, <<6109, 6109>>, <<6155, 6159>>, <<6211, 6211>>, <<6277, 6278>>, <<6313, 6313>>, <<6432, 6434>>,
       <<6439, 6440>>, <<6450, 6450>>, <<6457, 6459>>, <<6679, 6680>>, <<6683, 6683>>, <<6742, 6742>>, <<6744, 6750>>, <<6752, 6752>>,
       <<6754, 6754>>, <<6757, 6764>>, <<6771, 6780>>, <<6783, 6783>>, <<6823, 6823>>, <<6832, 6862>>, <<6912, 6915>>, <<6964, 6964>>,
       <<6966, 6970>>, <<6972, 6972>>, <<6978, 6978>>, <<7019, 7027>>, <<7040, 7041>>, <<7074, 7077>>, <<7080, 7081>>, <<7083, 7085>>,
       <<7142, 7142>>, <<7144, 7145>>, <<7149, 7149>>, <<7151, 7153>>, <<7212, 7219>>, <<7222, 7223>>, <<7288, 7293>>, <<7376, 7378>>,
       <<7380, 7392>>, <<7394, 7400>>, <<7405, 7405>>, <<7412, 7412>>, <<7416, 7417>>, <<7468, 7530>>, <<7544, 7544>>, <<7579, 7679>>,
       <<8125, 8125>>, <<8127, 8129>>, <<8141, 8143>>, <<8157, 8159>>, <<8173, 8175>>, <<8189, 8190>>, <<8203, 8207>>, <<8216, 8217>>,
       <<8228, 8228>>, <<8231, 8231>>, <<8234, 8238>>, <<8288, 8292>>, <<8294, 8303>>, <<8305, 8305>>, <<8319, 8319>>, <<8336, 8348>>,
       <<8400, 8432>>, <<11388, 11389>>, <<11503, 11505>>, <<11631, 11631>>, <<11647, 11647>>, <<11744, 11775>>, <<11823, 11823>>, <<12293, 12293>>,
       <<12330, 12333>>, <<12337, 12341>>, <<12347, 12347>>, <<12441, 12446>>, <<12540, 12542>>, <<40981, 40981>>, <<42232, 42237>>, <<42508, 42508>>,
       <<42607, 42610>>, <<42612, 42621>>, <<42623, 42623>>, <<42652, 42655>>, <<42736, 42737>>, <<42752, 42785>>, <<42864, 42864>>, <<42888, 42890>>,
       <<42994, 42996>>, <<43000, 43001>>, <<43010, 43010>>, <<43014, 43014>>, <<43019, 43019>>, <<43045, 43046>>, <<43052, 43052>>, <<43204, 43205>>,
       <<43232, 43249>>, <<43263, 43263>>, <<43302, 43309>>, <<43335, 43345>>, <<43392, 43394>>, <<43443, 43443>>, <<43446, 43449>>, <<43452, 43453>>,
       <<43471, 43471>>, <<43493, 43494>>, <<43561, 43566>>, <<43569, 43570>>, <<43573, 43574>>, <<43587, 43587>>, <<43596, 43596>>, <<43632, 43632>>,
       <<43644, 43644>>, <<43696, 43696>>, <<43698, 43700>>, <<43703, 43704>>, <<43710, 43711>>, <<43713, 43713>>, <<43741, 43741>>, <<43756, 43757>>,
       <<43763, 43764>>, <<43766, 43766>>, <<43867, 43871>>, <<43881, 43883>>, <<44005, 44005>>, <<44008, 44008>>, <<44013, 44013>>, <<64286, 64286>>,
       <<64434, 64450>>, <<65024, 65039>>, <<65043, 65043>>, <<65056, 65071>>, <<65106, 65106>>, <<65109, 65109>>, <<65279, 65279>>, <<65287, 65287>>,
       <<65294, 65294>>, <<65306, 65306>>, <<65342, 65342>>, <<65344, 65344>>, <<65392, 65392>>, <<65438, 65439>>, <<65507, 65507>>, <<65529, 65531>>,
       <<66045, 66045>>, <<66272, 66272>>, <<66422, 66426>>, <<67456, 67461>>, <<67463, 67504>>, <<67506, 67514>>, <<68097, 68099>>, <<68101, 68102>>,
       <<68108, 68111>>, <<68152, 68154>>, <<68159, 68159>>, <<68325, 68326>>, <<68900, 68903>>, <<69291, 69292>>, <<69446, 69456>>, <<69506, 69509>>,
       <<69633, 69633>>, <<69688, 69702>>, <<69744, 69744>>, <<69747, 69748>>, <<69759, 69761>>, <<69811, 69814>>, <<69817, 69818>>, <<69821, 69821>>,
       <<69826, 69826>>, <<69837, 69837>>, <<69888, 69890>>, <<69927, 69931>>, <<69933, 69940>>, <<70003, 70003>>, <<70016, 70017>>, <<70070, 70078>>,
       <<70089, 70092>>, <<70095, 70095>>, <<70191, 70193>>, <<70196, 70196>>, <<70198, 70199>>, <<70206, 70206>>, <<70367, 70367>>, <<70371, 70378>>,
       <<70400, 70401>>, <<70459, 70460>>, <<70464, 70464>>, <<70502, 70508>>, <<70512, 70516>>, <<70712, 70719>>, <<70722, 70724>>, <<70726, 70726>>,
       <<70750, 70750>>, <<70835, 70840>>, <<70842, 70842>>, <<70847, 70848>>, <<70850, 70851>>, <<71090, 71093>>, <<71100, 71101>>, <<71103, 71104>>,
       <<71132, 71133>>, <<71219, 71226>>, <<71229, 71229>>, <<71231, 71232>>, <<71339, 71339>>, <<71341, 71341>>, <<71344, 71349>>, <<71351, 71351>>,
       <<71453, 71455>>, <<71458, 71461>>, <<71463, 71467>>, <<71727, 71735>>, <<71737, 71738>>, <<71995, 71996>>, <<71998, 71998>>, <<72003, 72003>>,
       <<72148, 72151>>, <<72154, 72155>>, <<72160, 72160>>, <<72193, 72202>>, <<72243, 72248>>, <<72251, 72254>>, <<72263, 72263>>, <<72273, 72278>>,
       <<72281, 72283>>, <<72330, 72342>>, <<72344, 72345>>, <<72752, 72758>>, <<72760, 72765>>, <<72767, 72767>>, <<72850, 72871>>, <<72874, 72880>>,
       <<72882, 72883>>, <<72885, 72886>>, <<73009, 73014>>, <<73018, 73018>>, <<73020, 73021>>, <<73023, 73029>>, <<73031, 73031>>, <<73104, 73105>>,
       <<73109, 73109>>, <<73111, 73111>>, <<73459, 73460>>, <<78896, 78904>>, <<92912, 92916>>, <<92976, 92982>>, <<92992, 92995>>, <<94031, 94031>>,
       <<94095, 94111>>, <<94176, 94177>>, <<94179, 94180>>, <<110576, 110579>>, <<110581, 110587>>, <<110589, 110590>>, <<113821, 113822>>, <<113824, 113827>>,
       <<118528, 118573>>, <<118576, 118598>>, <<119143, 119145>>, <<119155, 119170>>, <<119173, 119179>>, <<119210, 119213>>, <<119362, 119364>>, <<121344, 121398>>,
       <<121403, 121452>>, <<121461, 121461>>, <<121476, 121476>>, <<121499, 121503>>, <<121505, 121519>>, <<122880, 122886>>, <<122888, 122904>>, <<122907, 122913>>,
       <<122915, 122916>>, <<122918, 122922>>, <<123184, 123197>>, <<123566, 123566>>, <<123628, 123631>>, <<125136, 125142>>, <<125252, 125259>>, <<127995, 127999>>,
       <<917505, 917505>>, <<917536, 917631>>, <<917760, 917999>> >>

LowerRuns ==
    << <<65, 90, 1, 32>>, <<192, 214, 1, 32>>, <<216, 222, 1, 32>>, <<256, 302, 2, 1>>, <<306, 310, 2, 1>>,
       <<313, 327, 2, 1>>, <<330, 374, 2, 1>>, <<376, 376, 1, -121>>, <<377, 381, 2, 1>>, <<385, 385, 1, 210>>,
       <<386, 388, 2, 1>>, <<390, 390, 1, 206>>, <<391, 391, 1, 1>>, <<393, 394, 1, 205>>, <<395, 395, 1, 1>>,
       <<398, 398, 1, 79>>, <<399, 399, 1, 202>>, <<400, 400, 1, 203>>, <<401, 401, 1, 1>>, <<403, 403, 1, 205>>,
       <<404, 404, 1, 207>>, <<406, 406, 1, 211>>, <<407, 407, 1, 209>>, <<408, 408, 1, 1>>, <<412, 412, 1, 211>>,
       <<413, 413, 1, 213>>, <<415, 415, 1, 214>>, <<416, 420, 2, 1>>, <<422, 422, 1, 218>>, <<423, 423, 1, 1>>,
       <<425, 425, 1, 218>>, <<428, 428, 1, 1>>, <<430, 430, 1, 218>>, <<431, 431, 1, 1>>, <<433, 434, 1, 217>>,
       <<435, 437, 2, 1>>, <<439, 439, 1, 219>>, <<440, 440, 1, 1>>, <<444, 444, 1, 1>>, <<452, 452, 1, 2>>,
       <<453, 453, 1, 1>>, <<455, 455, 1, 2>>, <<456, 456, 1, 1>>, <<458, 458, 1, 2>>, <<459, 475, 2, 1>>,
       <<478, 494, 2, 1>>, <<497, 497, 1, 2>>, <<498, 500, 2, 1>>, <<502, 502, 1, -97>>, <<503, 503, 1, -56>>,
       <<504, 542, 2, 1>>, <<544, 544, 1, -130>>, <<546, 562, 2, 1>>, <<570, 570, 1, 10795>>, <<571, 571, 1, 1>>,
       <<573, 573, 1, -163>>, <<574, 574, 1, 10792>>, <<577, 577, 1, 1>>, <<579, 579, 1, -195>>, <<580, 580, 1, 69>>,
       <<581, 581, 1, 71>>, <<582, 590, 2, 1>>, <<880, 882, 2, 1>>, <<886, 886, 1, 1>>, <<895, 895, 1, 116>>,
       <<902, 902, 1, 38>>, <<904, 906, 1, 37>>, <<908, 908, 1, 64>>, <<910, 911, 1, 63>>, <<913, 929, 1, 32>>,
       <<931, 939, 1, 32>>, <<975, 975, 1, 8>>, <<984, 1006, 2, 1>>, <<1012, 1012, 1, -60>>, <<1015, 1015, 1, 1>>,
       <<1017, 1017, 1, -7>>, <<1018, 1018, 1, 1>>, <<1021, 1023, 1, -130>>, <<1024, 1039, 1, 80>>, <<1040, 1071, 1, 32>>,
       <<1120, 1152, 2, 1>>, <<1162, 1214, 2, 1>>, <<1216, 1216, 1, 15>>, <<1217, 1229, 2, 1>>, <<1232, 1326, 2, 1>>,
       <<1329, 1366, 1, 48>>, <<4256, 4293, 1, 7264>>, <<4295, 4295, 1, 7264>>, <<4301, 4301, 1, 7264>>, <<5024, 5103, 1, 38864>>,
       <<5104, 5109, 1, 8>>, <<7312, 7354, 1, -3008>>, <<7357, 7359, 1, -3008>>, <<7680, 7828, 2, 1>>, <<7838, 7838, 1, -7615>>,
       <<7840, 7934, 2, 1>>, <<7944, 7951, 1, -8>>, <<7960, 7965, 1, -8>>, <<7976, 7983, 1, -8>>, <<7992, 7999, 1, -8>>,
       <<8008, 8013, 1, -8>>, <<8025, 8031, 2, -8>>, <<8040, 8047, 1, -8>>, <<8072, 8079, 1, -8>>, <<8088, 8095, 1, -8>>,
       <<8104, 8111, 1, -8>>, <<8120, 8121, 1, -8>>, <<8122, 8123, 1, -74>>, <<8124, 8124, 1, -9>>, <<8136, 8139, 1, -86>>,
       <<8140, 8140, 1, -9>>, <<8152, 8153, 1, -8>>, <<8154, 8155, 1, -100>>, <<8168, 8169, 1, -8>>, <<8170, 8171, 1, -112>>,
       <<8172, 8172, 1, -7>>, <<8184, 8185, 1, -128>>, <<8186, 8187, 1, -126>>, <<8188, 8188, 1, -9>>, <<8486, 8486, 1, -7517>>,
       <<8490, 8490, 1, -8383>>, <<8491, 8491, 1, -8262>>, <<8498, 8498, 1, 28>>, <<8544, 8559, 1, 16>>, <<8579, 8579, 1, 1>>,
       <<9398, 9423, 1, 26>>, <<11264, 11311, 1, 48>>, <<11360, 11360, 1, 1>>, <<11362, 11362, 1, -10743>>, <<11363, 11363, 1, -3814>>,
       <<11364, 11364, 1, -10727>>, <<11367, 11371, 2, 1>>, <<11373, 11373, 1, -10780>>, <<11374, 11374, 1, -10749>>, <<11375, 11375, 1, -10783>>,
       <<11376, 11376, 1, -10782>>, <<11378, 11378, 1, 1>>, <<11381, 11381, 1, 1>>, <<11390, 11391, 1, -10815>>, <<11392, 11490, 2, 1>>,
       <<11499, 11501, 2, 1>>, <<11506, 11506, 1, 1>>, <<42560, 42604, 2, 1>>, <<42624, 42650, 2, 1>>, <<42786, 42798, 2, 1>>,
       <<42802, 42862, 2, 1>>, <<42873, 42875, 2, 1>>, <<42877, 42877, 1, -35332>>, <<42878, 42886, 2, 1>>, <<42891, 42891, 1, 1>>,
       <<42893, 42893, 1, -42280>>, <<42896, 42898, 2, 1>>, <<42902, 42920, 2, 1>>, <<42922, 42922, 1, -42308>>, <<42923, 42923, 1, -42319>>,
       <<42924, 42924, 1, -42315>>, <<42925, 42925, 1, -42305>>, <<42926, 42926, 1, -42308>>, <<42928, 42928, 1, -42258>>, <<42929, 42929, 1, -42282>>,
       <<42930, 42930, 1, -42261>>, <<42931, 42931, 1, 928>>, <<42932, 42946, 2, 1>>, <<42948, 42948, 1, -48>>, <<42949, 42949, 1, -42307>>,
       <<42950, 42950, 1, -35384>>, <<42951, 42953, 2, 1>>, <<42960, 42960, 1, 1>>, <<42966, 42968, 2, 1>>, <<42997, 42997, 1, 1>>,
       <<65313, 65338, 1, 32>>, <<66560, 66599, 1, 40>>, <<66736, 66771, 1, 40>>, <<66928, 66938, 1, 39>>, <<66940, 66954, 1, 39>>,
       <<66956, 66962, 1, 39>>, <<66964, 66965, 1, 39>>, <<68736, 68786, 1, 64>>, <<71840, 71871, 1, 32>>, <<93760, 93791, 1, 32>>,
       <<125184, 125217, 1, 34>> >>

LowerExpansions ==
    << <<304, <<105, 775>>>> >>

TitleRuns ==
    << <<97, 122, 1, -32>>, <<181, 181, 1, 743>>, <<224, 246, 1, -32>>, <<248, 254, 1, -32>>, <<255, 255, 1, 121>>,
       <<257, 303, 2, -1>>, <<305, 305, 1, -232>>, <<307, 311, 2, -1>>, <<314, 328, 2, -1>>, <<331, 375, 2, -1>>,
       <<378, 382, 2, -1>>, <<383, 383, 1, -300>>, <<384, 384, 1, 195>>, <<387, 389, 2, -1>>, <<392, 392, 1, -1>>,
       <<396, 396, 1, -1>>, <<402, 402, 1, -1>>, <<405, 405, 1, 97>>, <<409, 409, 1, -1>>, <<410, 410, 1, 163>>,
       <<414, 414, 1, 130>>, <<417, 421, 2, -1>>, <<424, 424, 1, -1>>, <<429, 429, 1, -1>>, <<432, 432, 1, -1>>,
       <<436, 438, 2, -1>>, <<441, 441, 1, -1>>, <<445, 445, 1, -1>>, <<447, 447, 1, 56>>, <<452, 452, 1, 1>>,
       <<454, 454, 1, -1>>, <<455, 455, 1, 1>>, <<457, 457, 1, -1>>, <<458, 458, 1, 1>>, <<460, 476, 2, -1>>,
       <<477, 477, 1, -79>>, <<479, 495, 2, -1>>, <<497, 497, 1, 1>>, <<499, 501, 2, -1>>, <<505, 543, 2, -1>>,
       <<547, 563, 2, -1>>, <<572, 572, 1, -1>>, <<575, 576, 1, 10815>>, <<578, 578, 1, -1>>, <<583, 591, 2, -1>>,
       <<592, 592, 1, 10783>>, <<593, 593, 1, 10780>>, <<594, 594, 1, 10782>>, <<595, 595, 1, -210>>, <<596, 596, 1, -206>>,
       <<598, 599, 1, -205>>, <<601, 601, 1, -202>>, <<603, 603, 1, -203>>, <<604, 604, 1, 42319>>, <<608, 608, 1, -205>>,
       <<609, 609, 1, 42315>>, <<611, 611, 1, -207>>, <<613, 613, 1, 42280>>, <<614, 614, 1, 42308>>, <<616, 616, 1, -209>>,
       <<617, 617, 1, -211>>, <<618, 618, 1, 42308>>, <<619, 619, 1, 10743>>, <<620, 620, 1, 42305>>, <<623, 623, 1, -211>>,
       <<625, 625, 1, 10749>>, <<626, 626, 1, -213>>, <<629, 629, 1, -214>>, <<637, 637, 1, 10727>>, <<640, 640, 1, -218>>,
       <<642, 642, 1, 42307>>, <<643, 643, 1, -218>>, <<647, 647, 1, 42282>>, <<648, 648, 1, -218>>, <<649, 649, 1, -69>>,
       <<650, 651, 1, -217>>, <<652, 652, 1, -71>>, <<658, 658, 1, -219>>, <<669, 669, 1, 42261>>, <<670, 670, 1, 42258>>,
       <<837, 837, 1, 84>>, <<881, 883, 2, -1>>, <<887, 887, 1, -1>>, <<891, 893, 1, 130>>, <<940, 940, 1, -38>>,
       <<941, 943, 1, -37>>, <<945, 961, 1, -32>>, <<962, 962, 1, -31>>, <<963, 971, 1, -32>>, <<972, 972, 1, -64>>,
       <<973, 974, 1, -63>>, <<976, 976, 1, -62>>, <<977, 977, 1, -57>>, <<981, 981, 1, -47>>, <<982, 982, 1, -54>>,
       <<983, 983, 1, -8>>, <<985, 1007, 2, -1>>, <<1008, 1008, 1, -86>>, <<1009, 1009, 1, -80>>, <<1010, 1010, 1, 7>>,
       <<1011, 1011, 1, -116>>, <<1013, 1013, 1, -96>>, <<1016, 1016, 1, -1>>, <<1019, 1019, 1, -1>>, <<1072, 1103, 1, -32>>,
       <<1104, 1119, 1, -80>>, <<1121, 1153, 2, -1>>, <<1163, 1215, 2, -1>>, <<1218, 1230, 2, -1>>, <<1231, 1231, 1, -15>>,
       <<1233, 1327, 2, -1>>, <<1377, 1414, 1, -48>>, <<5112, 5117, 1, -8>>, <<7296, 7296, 1, -6254>>, <<7297, 7297, 1, -6253>>,
       <<7298, 7298, 1, -6244>>, <<7299, 7300, 1, -6242>>, <<7301, 7301, 1, -6243>>, <<7302, 7302, 1, -6236>>, <<7303, 7303, 1, -6181>>,
       <<7304, 7304, 1, 35266>>, <<7545, 7545, 1, 35332>>, <<7549, 7549, 1, 3814>>, <<7566, 7566, 1, 35384>>, <<7681, 7829, 2, -1>>,
       <<7835, 7835, 1, -59>>, <<7841, 7935, 2, -1>>, <<7936, 7943, 1, 8>>, <<7952, 7957, 1, 8>>, <<7968, 7975, 1, 8>>,
       <<7984, 7991, 1, 8>>, <<8000, 8005, 1, 8>>, <<8017, 8023, 2, 8>>, <<8032, 8039, 1, 8>>, <<8048, 8049, 1, 74>>,
       <<8050, 8053, 1, 86>>, <<8054, 8055, 1, 100>>, <<8056, 8057, 1, 128>>, <<8058, 8059, 1, 112>>, <<8060, 8061, 1, 126>>,
       <<8064, 8071, 1, 8>>, <<8080, 8087, 1, 8>>, <<8096, 8103, 1, 8>>, <<8112, 8113, 1, 8>>, <<8115, 8115, 1, 9>>,
       <<8126, 8126, 1, -7205>>, <<8131, 8131, 1, 9>>, <<8144, 8145, 1, 8>>, <<8160, 8161, 1, 8>>, <<8165, 8165, 1, 7>>,
       <<8179, 8179, 1, 9>>, <<8526, 8526, 1, -28>>, <<8560, 8575, 1, -16>>, <<8580, 8580, 1, -1>>, <<9424, 9449, 1, -26>>,
       <<11312, 11359, 1, -48>>, <<11361, 11361, 1, -1>>, <<11365, 11365, 1, -10795>>, <<11366, 11366, 1, -10792>>, <<11368, 11372, 2, -1>>,
       <<11379, 11379, 1, -1>>, <<11382, 11382, 1, -1>>, <<11393, 11491, 2, -1>>, <<11500, 11502, 2, -1>>, <<11507, 11507, 1, -1>>,
       <<11520, 11557, 1, -7264>>, <<11559, 11559, 1, -7264>>, <<11565, 11565, 1, -7264>>, <<42561, 42605, 2, -1>>, <<42625, 42651, 2, -1>>,
       <<42787, 42799, 2, -1>>, <<42803, 42863, 2, -1>>, <<42874, 42876, 2, -1>>, <<42879, 42887, 2, -1>>, <<42892, 42892, 1, -1>>,
       <<42897, 42899, 2, -1>>, <<42900, 42900, 1, 48>>, <<42903, 42921, 2, -1>>, <<42933, 42947, 2, -1>>, <<42952, 42954, 2, -1>>,
       <<42961, 42961, 1, -1>>, <<42967, 42969, 2, -1>>, <<42998, 42998, 1, -1>>, <<43859, 43859, 1, -928>>, <<43888, 43967, 1, -38864>>,
       <<65345, 65370, 1, -32>>, <<66600, 66639, 1, -40>>, <<66776, 66811, 1, -40>>, <<66967, 66977, 1, -39>>, <<66979, 66993, 1, -39>>,
       <<66995, 67001, 1, -39>>, <<67003, 67004, 1, -39>>, <<68800, 68850, 1, -64>>, <<71872, 71903, 1, -32>>, <<93792, 93823, 1, -32>>,
       <<125218, 125251, 1, -34>> >>

TitleExpansions ==
    << <<223, <<83, 115>>>>, <<329, <<700, 78>>>>, <<496, <<74, 780>>>>, <<912, <<921, 776, 769>>>>,
       <<944, <<933, 776, 769>>>>, <<1415, <<1333, 1410>>>>, <<7830, <<72, 817>>>>, <<7831, <<84, 776>>>>,
       <<7832, <<87, 778>>>>, <<7833, <<89, 778>>>>, <<7834, <<65, 702>>>>, <<8016, <<933, 787>>>>,
       <<8018, <<933, 787, 768>>>>, <<8020, <<933, 787, 769>>>>, <<8022, <<933, 787, 834>>>>, <<8114, <<8122, 837>>>>,
       <<8116, <<902, 837>>>>, <<8118, <<913, 834>>>>, <<8119, <<913, 834, 837>>>>, <<8130, <<8138, 837>>>>,
       <<8132, <<905, 837>>>>, <<8134, <<919, 834>>>>, <<8135, <<919, 834, 837>>>>, <<8146, <<921, 776, 768>>>>,
       <<8147, <<921, 776, 769>>>>, <<8150, <<921, 834>>>>, <<8151, <<921, 776, 834>>>>, <<8162, <<933, 776, 768>>>>,
       <<8163, <<933, 776, 769>>>>, <<8164, <<929, 787>>>>, <<8166, <<933, 834>>>>, <<8167, <<933, 776, 834>>>>,
       <<8178, <<8186, 837>>>>, <<8180, <<911, 837>>>>, <<8182, <<937, 834>>>>, <<8183, <<937, 834, 837>>>>,
       <<64256, <<70, 102>>>>, <<64257, <<70, 105>>>>, <<64258, <<70, 108>>>>, <<64259, <<70, 102, 105>>>>,
       <<64260, <<70, 102, 108>>>>, <<64261, <<83, 116>>>>, <<64262, <<83, 116>>>>, <<64275, <<1348, 1398>>>>,
       <<64276, <<1348, 1381>>>>, <<64277, <<1348, 1387>>>>, <<64278, <<1358, 1398>>>>, <<64279, <<1348, 1389>>>> >>

IgnoreCaseExtras ==
    { <<304, 105>>, <<305, 105>>, <<383, 115>>, <<8490, 107>> }

\* c is in one of the runs
InRuns(c, runs) == \E k \in 1..Len(runs) : runs[k][1] <= c /\ c <= runs[k][2]

\* the characters str.strip() removes and \s matches
IsSpace(c) == c \in SpaceCodes

\* the characters \d matches
IsDigit(c) == IF c < 128 THEN 48 <= c /\ c <= 57 ELSE InRuns(c, DigitRuns)

\* the value int() and float() give the decimal digit c
DigitVal(c) ==
    LET run == DigitRuns[CHOOSE k \in 1..Len(DigitRuns) :
                             DigitRuns[k][1] <= c /\ c <= DigitRuns[k][2]]
    IN (c - run[1]) % 10

IsCased(c) ==
    IF c < 128 THEN (65 <= c /\ c <= 90) \/ (97 <= c /\ c <= 122) ELSE InRuns(c, CasedRuns)
IsCaseIgnorable(c) == InRuns(c, CaseIgnorableRuns)

\* the image of c under a case mapping: its expansion if it has one, c + delta
\* if a run holds it, c itself otherwise
Mapped(c, runs, expansions) ==
    IF \E e \in 1..Len(expansions) : expansions[e][1] = c
    THEN expansions[CHOOSE e \in 1..Len(expansions) : expansions[e][1] = c][2]
    ELSE IF \E k \in 1..Len(runs) :
                runs[k][1] <= c /\ c <= runs[k][2] /\ (c - runs[k][1]) % runs[k][3] = 0
    THEN << c + runs[CHOOSE k \in 1..Len(runs) :
                        runs[k][1] <= c /\ c <= runs[k][2]
                        /\ (c - runs[k][1]) % runs[k][3] = 0][4] >>
    ELSE <<c>>

\* chr(c).lower() and chr(c).title() as strs; below 128 only the letters change
LowerChar(c) ==
    IF c < 128 THEN << IF 65 <= c /\ c <= 90 THEN c + 32 ELSE c >>
    ELSE Mapped(c, LowerRuns, LowerExpansions)
TitleChar(c) ==
    IF c < 128 THEN << IF 97 <= c /\ c <= 122 THEN c - 32 ELSE c >>
    ELSE Mapped(c, TitleRuns, TitleExpansions)

\* the nearest position from j downwards (upwards) whose character is not
\* case-ignorable; 0 (Len(s) + 1) when there is none
RECURSIVE BeforeIgnorable(_, _)
BeforeIgnorable(s, j) ==
    IF j >= 1 /\ IsCaseIgnorable(s[j]) THEN BeforeIgnorable(s, j - 1) ELSE j
RECURSIVE AfterIgnorable(_, _)
AfterIgnorable(s, j) ==
    IF j <= Len(s) /\ IsCaseIgnorable(s[j]) THEN AfterIgnorable(s, j + 1) ELSE j

\* a capital sigma at i ends a word: a cased character comes before it and
\* none after it, case-ignorable characters skipped
IsFinalSigma(s, i) ==
    LET before == BeforeIgnorable(s, i - 1)
        after == AfterIgnorable(s, i + 1)
    IN /\ before >= 1
       /\ IsCased(s[before])
       /\ (after > Len(s) \/ ~IsCased(s[after]))

\* the lower-case form of the character at i of s: a capital sigma (931)
\* becomes a final sigma (962) at the end of a word and a small sigma (963)
\* elsewhere
LowerAt(s, i) ==
    IF s[i] = 931
    THEN << IF IsFinalSigma(s, i) THEN 962 ELSE 963 >>
    ELSE LowerChar(s[i])

\* the title-case form of the character at i of s: lower case after a cased
\* character, title case otherwise
TitleAt(s, i) ==
    IF i > 1 /\ IsCased(s[i - 1]) THEN LowerAt(s, i) ELSE TitleChar(s[i])

\* str.lower(): the lower-case forms of positions a..b, one half after the other
RECURSIVE LowerFrom(_, _, _)
LowerFrom(s, a, b) ==
    IF a > b THEN EmptyStr
    ELSE IF a = b THEN LowerAt(s, a)
    ELSE LET mid == (a + b) \div 2
         IN LowerFrom(s, a, mid) \o LowerFrom(s, mid + 1, b)

lower(s) == LowerFrom(s, 1, Len(s))

\* str.title()
RECURSIVE TitleFrom(_, _, _)
TitleFrom(s, a, b) ==
    IF a > b THEN EmptyStr
    ELSE IF a = b THEN TitleAt(s, a)
    ELSE LET mid == (a + b) \div 2
         IN TitleFrom(s, a, mid) \o TitleFrom(s, mid + 1, b)

title(s) == TitleFrom(s, 1, Len(s))

\* sub in s
Contains(sub, s) ==
    \E i \in 1..(Len(s) - Len(sub) + 1) : SubSeq(s, i, i + Len(sub) - 1) = sub

\* any(word in s for word in words)
AnyIn(words, s) == \E k \in 1..Len(words) : Contains(words[k], s)

RECURSIVE LStripFrom(_, _)
LStripFrom(s, i) ==
    IF i <= Len(s) /\ IsSpace(CharAt(s, i)) THEN LStripFrom(s, i + 1) ELSE i

RECURSIVE RStripFrom(_, _)
RStripFrom(s, j) ==
    IF j >= 1 /\ IsSpace(CharAt(s, j)) THEN RStripFrom(s, j - 1) ELSE j

strip(s) == SubSeq(s, LStripFrom(s, 1), RStripFrom(s, Len(s)))

LineFeed == 10

\* s.split('\n'): the pieces between newlines, empty pieces kept
split_lines(s) ==
    LET newlines == { i \in 1..Len(s) : CharAt(s, i) = LineFeed }
        n == Cardinality(newlines)
        \* position of the k-th newline
        Nth(k) == CHOOSE i \in newlines : Cardinality({ j \in newlines : j < i }) = k - 1
    IN [k \in 1..(n + 1) |->
          SubSeq(s, IF k = 1 THEN 1 ELSE Nth(k - 1) + 1,
                    IF k = n + 1 THEN Len(s) ELSE Nth(k) - 1)]

\* int(s) for a run of decimal digits
RECURSIVE ParseInt(_)
ParseInt(s) ==
    IF Len(s) = 0 THEN 0
    ELSE 10 * ParseInt(SubSeq(s, 1, Len(s) - 1)) + DigitVal(CharAt(s, Len(s)))

\* sep.join(parts)
RECURSIVE JoinFrom(_, _, _)
JoinFrom(parts, sep, i) ==
    IF i > Len(parts) THEN EmptyStr
    ELSE (IF i > 1 THEN sep ELSE EmptyStr) \o parts[i] \o JoinFrom(parts, sep, i + 1)

Join(parts, sep) == JoinFrom(parts, sep, 1)

\* str.split(): the maximal runs of characters that are not white space
split_words(s) ==
    LET starts == { i \in 1..Len(s) :
                      ~IsSpace(CharAt(s, i)) /\ (i = 1 \/ IsSpace(CharAt(s, i - 1))) }
        start(k) == CHOOSE i \in starts : Cardinality({ j \in starts : j < i }) = k - 1
        stop(i) == CHOOSE j \in i..Len(s) :
                      /\ \A m \in i..j : ~IsSpace(CharAt(s, m))
                      /\ (j = Len(s) \/ IsSpace(CharAt(s, j + 1)))
    IN [k \in 1..Cardinality(starts) |-> SubSeq(s, start(k), stop(start(k)))]

(***************************************************************************)
(* re: the four confidence patterns and the numbered-list pattern          *)
(***************************************************************************)
Colon == 58
Percent == 37
FullStop == 46

\* the words of the patterns
confidence_word == Lit("confidence")
percent_word == Lit("percent")

\* the character c matches the lower-case letter p of a pattern under
\* re.IGNORECASE: p, its capital, or one of the characters that the re module
\* takes for the same letter
MatchesIgnoringCase(c, p) ==
    c = p \/ c = p - 32 \/ <<c, p>> \in IgnoreCaseExtras

\* the word w of a pattern matches s at i, ignoring case (re.IGNORECASE)
LiteralAt(s, i, w) ==
    /\ i + Len(w) - 1 <= Len(s)
    /\ \A k \in 1..Len(w) : MatchesIgnoringCase(CharAt(s, i + k - 1), w[k])

\* end of the greedy run [:\s]* starting at i: the first index not in the class
RECURSIVE SkipColonSpace(_, _)
SkipColonSpace(s, i) ==
    IF i <= Len(s) /\ (CharAt(s, i) = Colon \/ IsSpace(CharAt(s, i)))
    THEN SkipColonSpace(s, i + 1) ELSE i

\* end of the greedy run \s* starting at i
RECURSIVE SkipSpace(_, _)
SkipSpace(s, i) ==
    IF i <= Len(s) /\ IsSpace(CharAt(s, i)) THEN SkipSpace(s, i + 1) ELSE i

\* end of the greedy run \d* starting at i
RECURSIVE SkipDigits(_, _)
SkipDigits(s, i) ==
    IF i <= Len(s) /\ IsDigit(CharAt(s, i)) THEN SkipDigits(s, i + 1) ELSE i

\* confidence[:\s]*(\d+)%  and  confidence[:\s]*(\d+)  matched at position i:
\* None, or the captured group.  The classes of adjacent repeats are disjoint,
\* so the greedy runs are the only way to match.
KeywordThenNumberAt(s, i, needPercent) ==
    IF ~LiteralAt(s, i, confidence_word) THEN None
    ELSE LET k == SkipColonSpace(s, i + Len(confidence_word))
             d == SkipDigits(s, k)
         IN IF d > k /\ (~needPercent \/ (d <= Len(s) /\ CharAt(s, d) = Percent))
            THEN Some(SubSeq(s, k, d - 1)) ELSE None

\* (\d+)%\s*confidence  and  (\d+)\s*percent  matched at position i
NumberThenKeywordAt(s, i, needPercent, keyword) ==
    LET d == SkipDigits(s, i)
        afterPercent == IF needPercent THEN d + 1 ELSE d
        k == SkipSpace(s, afterPercent)
    IN IF /\ d > i
          /\ (~needPercent \/ (d <= Len(s) /\ CharAt(s, d) = Percent))
          /\ LiteralAt(s, k, keyword)
       THEN Some(SubSeq(s, i, d - 1)) ELSE None

NumPatterns == 4

\* confidence_patterns[p] matched at position i of s
PatternAt(p, s, i) ==
    CASE p = 1 -> KeywordThenNumberAt(s, i, TRUE)
      [] p = 2 -> NumberThenKeywordAt(s, i, TRUE, confidence_word)
      [] p = 3 -> KeywordThenNumberAt(s, i, FALSE)
      [] p = 4 -> NumberThenKeywordAt(s, i, FALSE, percent_word)

\* re.search(confidence_patterns[p], s, re.IGNORECASE).group(1): the match at
\* the leftmost position that has one, None when there is none
re_search(p, s) ==
    LET starts == { i \in 1..Len(s) : PatternAt(p, s, i) # None }
    IN IF starts = {} THEN None
       ELSE PatternAt(p, s, CHOOSE i \in starts : \A j \in starts : i <= j)

\* re.match(r'^\d+\.', line)
NumberedMatch(line) ==
    LET d == SkipDigits(line, 1)
    IN d > 1 /\ d <= Len(line) /\ CharAt(line, d) = FullStop

(***************************************************************************)
(* LangChainService._parse_image_analysis                                  *)
(***************************************************************************)
diseases ==
    << Lit("blight"), Lit("wilt"), Lit("rust"), Lit("mildew"), Lit("mosaic"), Lit("rot"), Lit("canker"),
       Lit("anthracnose"), Lit("leaf spot"), Lit("powdery mildew"), Lit("downy mildew"),
       Lit("bacterial"), Lit("fungal"), Lit("viral"), Lit("aphid"), Lit("thrips"), Lit("whitefly") >>

action_words ==
    << Lit("spray"), Lit("apply"), Lit("use"), Lit("treat"), Lit("remove"), Lit("cut"), Lit("water"),
       Lit("fertilize"), Lit("prune"), Lit("harvest"), Lit("isolate") >>

remedy_words ==
    << Lit("neem"), Lit("organic"), Lit("local"), Lit("traditional"), Lit("natural"),
       Lit("turmeric"), Lit("garlic"), Lit("soap"), Lit("ash") >>

numbered_remedy_words == << Lit("neem"), Lit("organic"), Lit("local") >>

MaxActions == 5
MaxRemedies == 3
MinNumberedLen == 10

\* the first n elements of a list: xs[:n]
Take(xs, n) == SubSeq(xs, 1, IF Len(xs) < n THEN Len(xs) ELSE n)

\* for disease in diseases: if disease in response_lower: ... break
RECURSIVE DiseaseFrom(_, _)
DiseaseFrom(k, response_lower) ==
    IF k > Len(diseases) THEN None
    ELSE IF Contains(diseases[k], response_lower) THEN Some(title(diseases[k]))
    ELSE DiseaseFrom(k + 1, response_lower)

\* DetectDisease taking the term that occurs leftmost in the text
DetectDisease_ByPosition(response_lower) ==
    LET pos(k) == { i \in 1..(Len(response_lower) - Len(diseases[k]) + 1) :
                      SubSeq(response_lower, i, i + Len(diseases[k]) - 1) = diseases[k] }
        found == { k \in 1..Len(diseases) : pos(k) # {} }
        leftmost(k) == CHOOSE i \in pos(k) : \A j \in pos(k) : i <= j
    IN IF found = {} THEN None
       ELSE Some(title(diseases[CHOOSE k \in found :
                                  \A m \in found : /\ leftmost(k) <= leftmost(m)
                                                    /\ (leftmost(k) = leftmost(m) => k <= m)]))

DetectDisease(response_lower) == DiseaseFrom(1, response_lower)

\* for pattern in confidence_patterns: ... break; the score is kept as the
\* captured integer, i.e. in hundredths (float(group(1)) / 100)
RECURSIVE ConfidenceFrom(_, _)
ConfidenceFrom(p, text) ==
    IF p > NumPatterns THEN None
    ELSE LET confidence_match == re_search(p, text)
         IN IF confidence_match # None
            THEN Some(ParseInt(confidence_match[1]))
            ELSE ConfidenceFrom(p + 1, text)

\* ExtractConfidence trying the patterns from the last to the first
ExtractConfidence_Reversed(text) ==
    LET matching == { p \in 1..NumPatterns : re_search(p, text) # None }
    IN IF matching = {} THEN None
       ELSE LET last == CHOOSE p \in matching : \A q \in matching : q <= p
            IN Some(ParseInt(re_search(last, text)[1]))

ExtractConfidence(text) == ConfidenceFrom(1, text)

\* the branch of the numbered-list case that decides remedy against action
NumberedIsRemedy(line_lower) == AnyIn(numbered_remedy_words, line_lower)

\* ClassifyLine with the remedy branch falling through to the action branch
ClassifyLine_FallThrough(acc, rawline) ==
    LET line == strip(rawline)
        line_lower == lower(line)
    IN IF line = EmptyStr THEN acc
       ELSE IF AnyIn(action_words, line_lower)
            THEN IF AnyIn(remedy_words, line_lower)
                 THEN [acc EXCEPT !.remedies = Append(@, line), !.actions = Append(@, line)]
                 ELSE [acc EXCEPT !.actions = Append(@, line)]
       ELSE IF NumberedMatch(line) /\ Len(line) > MinNumberedLen
            THEN IF NumberedIsRemedy(line_lower)
                 THEN [acc EXCEPT !.remedies = Append(@, line), !.actions = Append(@, line)]
                 ELSE [acc EXCEPT !.actions = Append(@, line)]
       ELSE acc

\* ClassifyLine without the remedy test in the action-verb branch
ClassifyLine_VerbIsAction(acc, rawline) ==
    LET line == strip(rawline)
        line_lower == lower(line)
    IN IF line = EmptyStr THEN acc
       ELSE IF AnyIn(action_words, line_lower)
            THEN [acc EXCEPT !.actions = Append(@, line)]
       ELSE IF NumberedMatch(line) /\ Len(line) > MinNumberedLen
            THEN IF NumberedIsRemedy(line_lower)
                 THEN [acc EXCEPT !.remedies = Append(@, line)]
                 ELSE [acc EXCEPT !.actions = Append(@, line)]
       ELSE acc

\* ClassifyLine taking numbered lines from 10 characters on
ClassifyLine_LenOffByOne(acc, rawline) ==
    LET line == strip(rawline)
        line_lower == lower(line)
    IN IF line = EmptyStr THEN acc
       ELSE IF AnyIn(action_words, line_lower)
            THEN IF AnyIn(remedy_words, line_lower)
                 THEN [acc EXCEPT !.remedies = Append(@, line)]
                 ELSE [acc EXCEPT !.actions = Append(@, line)]
       ELSE IF NumberedMatch(line) /\ Len(line) >= MinNumberedLen
            THEN IF NumberedIsRemedy(line_lower)
                 THEN [acc EXCEPT !.remedies = Append(@, line)]
                 ELSE [acc EXCEPT !.actions = Append(@, line)]
       ELSE acc

\* one iteration of "for line in lines", on the lists built so far
ClassifyLine(acc, rawline) ==
    LET line == strip(rawline)
        line_lower == lower(line)
    IN IF line = EmptyStr THEN acc
       ELSE IF AnyIn(action_words, line_lower)
            THEN IF AnyIn(remedy_words, line_lower)
                 THEN [acc EXCEPT !.remedies = Append(@, line)]
                 ELSE [acc EXCEPT !.actions = Append(@, line)]
       ELSE IF NumberedMatch(line) /\ Len(line) > MinNumberedLen
            THEN IF NumberedIsRemedy(line_lower)
                 THEN [acc EXCEPT !.remedies = Append(@, line)]
                 ELSE [acc EXCEPT !.actions = Append(@, line)]
       ELSE acc

\* the lists after the first n lines have been looked at
RECURSIVE ClassifyLines(_, _)
ClassifyLines(lines, n) ==
    IF n = 0 THEN [actions |-> <<>>, remedies |-> <<>>]
    ELSE ClassifyLine(ClassifyLines(lines, n - 1), lines[n])

\* InitialResult keeping the lower-cased text instead of the text
InitialResult_Lowered(content) ==
    [ analysis |-> [content EXCEPT !.text = lower(@)],
      disease_detected |-> None,
      confidence_score |-> None,
      recommended_actions |-> <<>>,
      local_remedies |-> <<>> ]

\* the dict built at the top of the try block
InitialResult(content) ==
    [ analysis |-> content,
      disease_detected |-> None,
      confidence_score |-> None,
      recommended_actions |-> <<>>,
      local_remedies |-> <<>> ]

\* ParseFallback without the raw text
ParseFallback_NoText(content) ==
    [ analysis |-> [content EXCEPT !.text = EmptyStr],
      disease_detected |-> None,
      confidence_score |-> None,
      recommended_actions |-> <<>>,
      local_remedies |-> <<>> ]

\* the dict returned by the except block
ParseFallback(content) ==
    [ analysis |-> content,
      disease_detected |-> None,
      confidence_score |-> None,
      recommended_actions |-> <<>>,
      local_remedies |-> <<>> ]

\* response_text.lower() raises AttributeError unless response_text is a str;
\* no later statement of the try block can raise on a str
ParseRaises(content) == content.pytype # "str"

\* TruncateActions keeping the last MaxActions lines instead of the first
TruncateActions_Last(actions) ==
    SubSeq(actions, IF Len(actions) > MaxActions THEN Len(actions) - MaxActions + 1 ELSE 1,
           Len(actions))

TruncateActions(actions) == Take(actions, MaxActions)
TruncateRemedies(remedies) == Take(remedies, MaxRemedies)

parse_image_analysis(content) ==
    IF ParseRaises(content) THEN ParseFallback(content)
    ELSE LET text == content.text
             lines == split_lines(text)
             lists == ClassifyLines(lines, Len(lines))
         IN [ InitialResult(content) EXCEPT
                !.disease_detected = DetectDisease(lower(text)),
                !.confidence_score = ExtractConfidence(text),
                !.recommended_actions = TruncateActions(lists.actions),
                !.local_remedies = TruncateRemedies(lists.remedies) ]

(***************************************************************************)
(* LangChainService: prompts, messages, suggestion heuristic               *)
(***************************************************************************)
\* setup_prompts: the two fixed instruction texts (their first sentence
\* stands for the whole multi-line literal, which no code inspects)
system_prompt ==
    Lit("You are AgriMitra, an expert agricultural assistant specifically designed to help farmers in Karnataka, India.")
image_analysis_prompt ==
    Lit("Analyze this crop image as an expert agricultural consultant. Please provide a detailed analysis including:")

\* KannadaDirective worded with a word of the market keyword set
KannadaDirective_Market == Lit("[Please respond in Kannada, the language of the local market] ")

KannadaDirective == Lit("[Please respond in Kannada language] ")

SystemMessage(content) == [type |-> "system", content |-> content]
HumanMessage(content) == [type |-> "human", content |-> content]
AIMessage(content) == [type |-> "ai", content |-> content]

disease_keywords == << Lit("disease"), Lit("spot"), Lit("yellow"), Lit("brown"), Lit("pest"), Lit("bug"), Lit("insect") >>
market_keywords == << Lit("price"), Lit("sell"), Lit("market"), Lit("mandi") >>
scheme_keywords == << Lit("subsidy"), Lit("scheme"), Lit("government"), Lit("loan") >>
weather_keywords == << Lit("weather"), Lit("rain"), Lit("drought"), Lit("irrigation") >>

disease_suggestions ==
    << Lit("Upload an image of the affected plant"),
       Lit("Check market prices for your crop"),
       Lit("Look for organic treatment options") >>
market_suggestions ==
    << Lit("Check current market prices"), Lit("Find nearby mandis"), Lit("Look for government schemes") >>
scheme_suggestions ==
    << Lit("Search government schemes"), Lit("Check eligibility criteria"), Lit("Find application procedures") >>
weather_suggestions ==
    << Lit("Check weather forecasts"),
       Lit("Look for drought-resistant varieties"),
       Lit("Explore irrigation subsidies") >>
default_suggestions ==
    << Lit("Upload crop images for analysis"), Lit("Check market prices"), Lit("Explore government schemes") >>

MaxSuggestions == 3

\* get_suggested_actions testing the market keywords before the disease keywords
get_suggested_actions_MarketFirst(message) ==
    LET message_lower == lower(message)
        suggestions ==
            IF AnyIn(market_keywords, message_lower) THEN market_suggestions
            ELSE IF AnyIn(disease_keywords, message_lower) THEN disease_suggestions
            ELSE IF AnyIn(scheme_keywords, message_lower) THEN scheme_suggestions
            ELSE IF AnyIn(weather_keywords, message_lower) THEN weather_suggestions
            ELSE default_suggestions
    IN Take(suggestions, MaxSuggestions)

get_suggested_actions(message) ==
    LET message_lower == lower(message)
        suggestions ==
            IF AnyIn(disease_keywords, message_lower) THEN disease_suggestions
            ELSE IF AnyIn(market_keywords, message_lower) THEN market_suggestions
            ELSE IF AnyIn(scheme_keywords, message_lower) THEN scheme_suggestions
            ELSE IF AnyIn(weather_keywords, message_lower) THEN weather_suggestions
            ELSE default_suggestions
    IN Take(suggestions, MaxSuggestions)

(***************************************************************************)
(* LangChainService.process_chat_message, up to the await                  *)
(***************************************************************************)
HistoryWindow == 5

\* LastN keeping the first n entries
LastN_First(xs, n) == SubSeq(xs, 1, IF Len(xs) > n THEN n ELSE Len(xs))

\* conversation_history[-5:]
LastN(xs, n) == SubSeq(xs, IF Len(xs) > n THEN Len(xs) - n + 1 ELSE 1, Len(xs))

\* HistoryMessage with the test made on the other role
HistoryMessage_AssistantElseUser(msg) ==
    IF msg.role = Lit("assistant") THEN AIMessage(msg.content) ELSE HumanMessage(msg.content)

\* the message appended for one history entry
HistoryMessage(msg) ==
    IF msg.role = Lit("user") THEN HumanMessage(msg.content) ELSE AIMessage(msg.content)

\* NeedsDirective for every language code but the default
NeedsDirective_NotEnglish(language) == language # None /\ language # Some(Lit("en"))

\* the condition under which the language directive is put before the text
NeedsDirective(language) == language = Some(Lit("kn"))

\* DirectedText without the language check
DirectedText_Always(text, language) == KannadaDirective \o text

\* the text of the current message after the language check
DirectedText(text, language) ==
    IF NeedsDirective(language) THEN KannadaDirective \o text ELSE text

\* build_chat_messages with the system message appended after the others
build_chat_messages_SystemLast(message, conversation_history, language) ==
    LET window == LastN(conversation_history, HistoryWindow)
    IN [i \in 1..Len(window) |-> HistoryMessage(window[i])]
       \o <<HumanMessage(DirectedText(message, language))>>
       \o <<SystemMessage(system_prompt)>>

build_chat_messages(message, conversation_history, language) ==
    LET window == LastN(conversation_history, HistoryWindow)
    IN <<SystemMessage(system_prompt)>>
       \o [i \in 1..Len(window) |-> HistoryMessage(window[i])]
       \o <<HumanMessage(DirectedText(message, language))>>

\* conversation_history_after with the window cut out of the caller's list
\* in place (del conversation_history[:-5])
conversation_history_after_Trimmed(conversation_history) ==
    LastN(conversation_history, HistoryWindow)

\* the caller's list once the context is built: the slice [-5:] is a new
\* list, the loop only reads its entries, and the appends go to messages
conversation_history_after(conversation_history) == conversation_history

\* the dict returned after the await; message is the text that was sent
chat_result(message, language, content) ==
    [ response |-> content,
      conversation_id |-> Lit("default"),
      suggested_actions |-> get_suggested_actions(DirectedText(message, language)) ]

(***************************************************************************)
(* LangChainService.analyze_crop_image                                     *)
(***************************************************************************)
MaxImageDim == 1024
MinImageDim == 50

\* image.thumbnail((1024, 1024)), the size that preserve_aspect_ratio of
\* Pillow's Image.thumbnail gives: an image within the box is left alone;
\* otherwise the side that fills the box becomes 1024 and the other side is
\* the floor or the ceiling of the scaled length, whichever keeps the aspect
\* ratio closer (round_aspect; min takes the floor when the two are equally
\* close), and at least 1. For a portrait or square image the ratios compared
\* are width/height and n/1024, for a landscape image width/height and
\* 1024/n. Pillow compares them as doubles: where the two candidates of a
\* landscape image are equally close in exact arithmetic, which is decided by
\* the floor f alone, the rounding of the doubles picks the ceiling for the f
\* of CeilingOnTie and the floor for every other.
thumbnail(size) ==
    LET w == size[1]
        h == size[2]
        CeilingOnTie == {
            5, 25, 44, 45, 50, 52, 61, 66, 74, 75, 79, 89, 91, 93,
            105, 117, 120, 121, 123, 130, 134, 138, 139, 147, 148,
            153, 154, 157, 158, 163, 164, 165, 175, 178, 181, 186,
            190, 191, 197, 200, 207, 208, 209, 211, 217, 220, 226,
            227, 234, 241, 243, 244, 245, 246, 260, 263, 270, 275,
            276, 283, 295, 296, 300, 301, 302, 305, 307, 308, 317,
            320, 325, 327, 328, 334, 337, 351, 352, 353, 354, 355,
            363, 364, 365, 385, 396, 403, 413, 415, 418, 436, 453,
            454, 458, 463, 466, 467, 476, 480, 481, 482, 484, 485,
            487, 489, 492, 507, 517, 518, 519, 527, 528, 529, 533,
            539, 542, 553, 554, 555, 570, 571, 573, 574, 580, 581,
            585, 586, 591, 594, 595, 601, 602, 610, 614, 616, 618,
            619, 624, 625, 627, 628, 629, 631, 636, 637, 641, 646,
            649, 651, 655, 658, 659, 660, 662, 663, 667, 668, 670,
            676, 686, 689, 695, 697, 700, 701, 703, 704, 707, 709,
            710, 714, 715, 723, 727, 740, 741, 744, 759, 774, 781,
            782, 785, 790, 791, 792, 800, 804, 805, 806, 811, 815,
            826, 830, 844, 864, 866, 867, 870, 871, 872, 874, 888,
            889, 890, 891, 901, 904, 905, 907, 910, 918, 919, 920,
            921, 933, 934, 936, 937, 939, 954, 956, 959, 960, 972,
            973, 975, 979, 980, 983, 985, 986, 987, 990, 1016,
            1020 }
        AtLeastOne(n) == IF n < 1 THEN 1 ELSE n
        Narrow == LET f == (MaxImageDim * w) \div h
                      r == (MaxImageDim * w) % h
                  IN IF 2 * r <= h THEN f ELSE f + 1
        Low == LET f == (MaxImageDim * h) \div w
                   r == (MaxImageDim * h) % w
               IN IF r = 0 \/ f = 0 THEN f
                  ELSE IF r * (2 * f + 1) < w * f THEN f
                  ELSE IF r * (2 * f + 1) > w * f THEN f + 1
                  ELSE IF f \in CeilingOnTie THEN f + 1 ELSE f
    IN IF w <= MaxImageDim /\ h <= MaxImageDim THEN size
       ELSE IF h >= w THEN <<AtLeastOne(Narrow), MaxImageDim>>
       ELSE <<MaxImageDim, AtLeastOne(Low)>>

\* the size of the image that is saved and embedded
embedded_size(size) ==
    IF size[1] > MaxImageDim \/ size[2] > MaxImageDim THEN thumbnail(size) ELSE size

\* analysis_prompt_text with the query appended even when it is empty
analysis_prompt_text_QueryAlways(query, language) ==
    DirectedText(image_analysis_prompt \o Lit("\n\nUser Query: ") \o query, language)

analysis_prompt_text(query, language) ==
    LET base == IF query # EmptyStr
                THEN image_analysis_prompt \o Lit("\n\nUser Query: ") \o query
                ELSE image_analysis_prompt
    IN DirectedText(base, language)

build_image_messages(image, query, language) ==
    << SystemMessage(system_prompt),
       HumanMessage(<< [type |-> "text", text |-> analysis_prompt_text(query, language)],
                       [type |-> "image_url",
                        image_url |-> [url |-> <<"data:image/jpeg;base64", image.id,
                                                 embedded_size(image.size)>>,
                                       detail |-> "high"]] >>) >>

\* image_fallback with the defaults of the parser's fallback
image_fallback_ParserDefaults(error) ==
    [ analysis |-> StrContent(
          Lit("I'm having trouble analyzing the image right now. Error: ") \o error
          \o Lit(". Please try uploading a clearer image or describe the issue you're seeing with your crops.")),
      disease_detected |-> None,
      confidence_score |-> None,
      recommended_actions |-> <<>>,
      local_remedies |-> <<>> ]

\* the dict returned by the except block of analyze_crop_image
image_fallback(error) ==
    [ analysis |-> StrContent(
          Lit("I'm having trouble analyzing the image right now. Error: ") \o error
          \o Lit(". Please try uploading a clearer image or describe the issue you're seeing with your crops.")),
      disease_detected |-> None,
      confidence_score |-> Some(0),
      recommended_actions |-> << Lit("Upload a clearer image"),
                                 Lit("Describe the problem in text"),
                                 Lit("Check image size and quality") >>,
      local_remedies |-> <<>> ]

\* str(e) of the error that image.thumbnail or image.save raises inside the
\* try block, if one does. Image.open reads the header only; the pixels are
\* loaded by thumbnail (images over 1024) or else by save, both of which load
\* before anything else, so a payload whose pixel data cannot be decoded
\* raises its load error there. A loaded image is written by the JPEG writer
\* in the modes 1, L, RGB, RGBX, CMYK and YCbCr; for any other mode, the RGBA
\* and P of PNG and GIF payloads among them, save raises OSError.
save_error(image) ==
    IF image.load_error # None THEN image.load_error
    ELSE IF image.mode \in {"1", "L", "RGB", "RGBX", "CMYK", "YCbCr"} THEN None
    ELSE Some(Lit("cannot write mode ") \o Lit(image.mode) \o Lit(" as JPEG"))

\* what analyze_crop_image returns without reaching the await: the fallback
\* dict of the except block when the image cannot be loaded or saved, None
\* when the method goes on to the model call
analyze_before_await(image) ==
    IF save_error(image) # None THEN Some(image_fallback(save_error(image)[1])) ELSE None

\* what analyze_crop_image returns for the outcome of the awaited model call
analyze_outcome(outcome) ==
    IF outcome.ok THEN parse_image_analysis(outcome.content)
    ELSE image_fallback(outcome.error)

(***************************************************************************)
(* MockGovernmentSchemeService (api/routes/schemes.py)                     *)
(***************************************************************************)
\* the five schemes, with the fields that the search reads
schemes_database ==
  <<
    [ name |-> Lit("PM-KISAN Samman Nidhi"),
      description |-> Lit("Direct income support to farmers providing ₹6000 per year in three equal installments"),
      category |-> Lit("subsidy"),
      benefits |-> << Lit("₹2000 per installment (3 times a year)"),
                      Lit("Direct bank transfer"),
                      Lit("No paperwork after initial registration") >> ],
    [ name |-> Lit("Pradhan Mantri Fasal Bima Yojana (PMFBY)"),
      description |-> Lit("Crop insurance scheme providing financial support in case of crop loss due to natural calamities"),
      category |-> Lit("insurance"),
      benefits |-> << Lit("Low premium rates (2% for Kharif, 1.5% for Rabi)"),
                      Lit("Coverage for yield losses"),
                      Lit("Quick settlement of claims"),
                      Lit("Technology-based damage assessment") >> ],
    [ name |-> Lit("Kisan Credit Card (KCC)"),
      description |-> Lit("Easy access to credit for farmers to meet their production and consumption needs"),
      category |-> Lit("loan"),
      benefits |-> << Lit("Interest rate 7% per annum"),
                      Lit("No collateral required up to ₹1.6 lakh"),
                      Lit("Flexible repayment options"),
                      Lit("Insurance coverage included") >> ],
    [ name |-> Lit("Soil Health Card Scheme"),
      description |-> Lit("Provides soil health information to farmers for appropriate nutrient management"),
      category |-> Lit("training"),
      benefits |-> << Lit("Free soil testing"),
                      Lit("Nutrient recommendations"),
                      Lit("Fertilizer recommendations"),
                      Lit("Improved crop productivity") >> ],
    [ name |-> Lit("Micro Irrigation Subsidy"),
      description |-> Lit("Financial assistance for drip and sprinkler irrigation systems"),
      category |-> Lit("subsidy"),
      benefits |-> << Lit("55% subsidy for general farmers"),
                      Lit("75% subsidy for SC/ST farmers"),
                      Lit("Water conservation"),
                      Lit("Increased crop yield") >> ]
  >>

\* the keyword_mapping dict, in insertion order
keyword_mapping ==
    << <<Lit("loan"), <<Lit("loan")>> >>,
       <<Lit("credit"), <<Lit("loan")>> >>,
       <<Lit("insurance"), <<Lit("insurance")>> >>,
       <<Lit("subsidy"), <<Lit("subsidy")>> >>,
       <<Lit("training"), <<Lit("training")>> >>,
       <<Lit("irrigation"), <<Lit("subsidy")>> >>,
       <<Lit("water"), <<Lit("subsidy")>> >>,
       <<Lit("income"), <<Lit("subsidy")>> >> >>

search_suggestions ==
    << Lit("Crop insurance schemes"),
       Lit("Irrigation subsidies"),
       Lit("Farmer loans and credit"),
       Lit("Soil testing programs"),
       Lit("Direct benefit transfer schemes") >>

MaxSchemes == 5

searchable_text(scheme) ==
    lower(scheme.name \o Lit(" ") \o scheme.description \o Lit(" ") \o Join(scheme.benefits, Lit(" ")))

\* the members of xs from the i-th on, in order, whose index is in kept
RECURSIVE Filter(_, _, _)
Filter(xs, kept, i) ==
    IF i > Len(xs) THEN <<>>
    ELSE (IF i \in kept THEN <<xs[i]>> ELSE <<>>) \o Filter(xs, kept, i + 1)

\* "if category": a category that is neither None nor the empty string
CategoryGiven(category) == category # None /\ category[1] # EmptyStr

\* the first loop: schemes of the category, if one is given, that contain a
\* word of the query
TextMatches(query_lower, category) ==
    LET words == split_words(query_lower)
        Keep(scheme) ==
            /\ ~(CategoryGiven(category) /\ scheme.category # category[1])
            /\ \E w \in 1..Len(words) : Contains(words[w], searchable_text(scheme))
    IN Filter(schemes_database,
              { k \in 1..Len(schemes_database) : Keep(schemes_database[k]) }, 1)

\* the second loop: the schemes of the categories of the first keyword, in
\* dict order, that the query contains; the break leaves after that keyword
KeywordMatches(query_lower) ==
    LET found == { k \in 1..Len(keyword_mapping) : Contains(keyword_mapping[k][1], query_lower) }
    IN IF found = {} THEN <<>>
       ELSE LET first == CHOOSE k \in found : \A m \in found : k <= m
                categories == keyword_mapping[first][2]
                Keep(scheme) == \E c \in 1..Len(categories) : categories[c] = scheme.category
            IN Filter(schemes_database,
              { k \in 1..Len(schemes_database) : Keep(schemes_database[k]) }, 1)

search_schemes(query, category) ==
    LET query_lower == lower(query)
        matched == TextMatches(query_lower, category)
        matching_schemes == IF matched = <<>> THEN KeywordMatches(query_lower) ELSE matched
    IN [ schemes |-> Take(matching_schemes, MaxSchemes),
         total_found |-> Len(matching_schemes),
         search_suggestions |-> search_suggestions ]

(***************************************************************************)
(* HTTP responses                                                          *)
(***************************************************************************)
HTTP_BAD_REQUEST == 400
HTTP_SERVER_ERROR == 500

NoResult == None
NoResponse == [status |-> 0, body |-> None, detail |-> EmptyStr]
\* a response model returned by a route: FastAPI answers 200
Ok(body) == [status |-> 200, body |-> Some(body), detail |-> EmptyStr]
HTTPException(status, detail) == [status |-> status, body |-> None, detail |-> detail]

(***************************************************************************)
(* Module-level state: core/config.py, chat.py:42, speech.py:201           *)
(***************************************************************************)
\* settings with both Azure OpenAI values set, and with one of them empty
Configured == [azure_openai_api_key |-> Lit("key"), azure_openai_endpoint |-> Lit("https://agrimitra.openai.azure.com")]
NoApiKey == [Configured EXCEPT !.azure_openai_api_key = EmptyStr]
NoEndpoint == [Configured EXCEPT !.azure_openai_endpoint = EmptyStr]

\* the n-th LangChainService instance; its memory is the ConversationBufferMemory
\* that __init__ creates
LangChainService(n) == [instance |-> n, memory |-> <<>>]

\* speechsdk.SpeechConfig(subscription, region): no language or voice set
SpeechConfig == [speech_recognition_language |-> None, speech_synthesis_voice_name |-> None]

(***************************************************************************)
(* AzureSpeechService (api/routes/speech.py)                               *)
(***************************************************************************)
\* self.language_mappings.get(language, language)
language_mappings(language) ==
    CASE language = Lit("en") -> Lit("en-US")
      [] language = Lit("kn") -> Lit("kn-IN")
      [] language = Lit("hi") -> Lit("hi-IN")
      [] language = Lit("ta") -> Lit("ta-IN")
      [] OTHER -> language

\* self.voice_mappings.get(full_language, "en-US-AriaNeural")
voice_mappings(full_language) ==
    CASE full_language = Lit("en-US") -> Lit("en-US-AriaNeural")
      [] full_language = Lit("kn-IN") -> Lit("kn-IN-SapnaNeural")
      [] full_language = Lit("hi-IN") -> Lit("hi-IN-SwaraNeural")
      [] full_language = Lit("ta-IN") -> Lit("ta-IN-PallaviNeural")
      [] OTHER -> Lit("en-US-AriaNeural")

\* what recognize_once can do: return a result with one of three reasons, or
\* raise; the confidence is the one of the detailed JSON result, if there is one
RecognizedSpeech(text, confidence) ==
    [reason |-> "RecognizedSpeech", text |-> text, confidence |-> confidence, error |-> EmptyStr]
NoMatch == [reason |-> "NoMatch", text |-> EmptyStr, confidence |-> None, error |-> EmptyStr]
Canceled == [reason |-> "Canceled", text |-> EmptyStr, confidence |-> None, error |-> EmptyStr]
Raised(error) == [reason |-> "raised", text |-> EmptyStr, confidence |-> None, error |-> error]

\* configure_recognition setting the language only when none is set yet
configure_recognition_Once(config, language) ==
    IF config.speech_recognition_language # None THEN config
    ELSE [config EXCEPT !.speech_recognition_language = Some(language_mappings(language))]

\* self.speech_config.speech_recognition_language = full_language
configure_recognition(config, language) ==
    [config EXCEPT !.speech_recognition_language = Some(language_mappings(language))]

\* binascii.a2b_base64 in its default, non-strict mode, from character i on,
\* with quad_pos characters of the current group of four read, pads padding
\* characters counted since the last data character, and bytes bytes written:
\* a character outside the alphabet is skipped; a data character after the
\* first of its group writes one byte; an '=' that completes a group of which
\* two or three characters were read ends the decoding and the rest of the
\* input is ignored; an input that ends inside a group raises binascii.Error.
\* The result is the number of bytes decoded, or str(e) of the error.
RECURSIVE a2b_base64(_, _, _, _, _)
a2b_base64(s, i, quad_pos, pads, bytes) ==
    LET RECURSIVE Decimal(_)
        Decimal(n) == IF n < 10 THEN <<48 + n>> ELSE Decimal(n \div 10) \o <<48 + (n % 10)>>
        IsData(c) == c \in (65..90) \cup (97..122) \cup (48..57) \cup {43, 47}
    IN IF i > Len(s)
       THEN IF quad_pos = 0 THEN [raised |-> None, bytes |-> bytes]
            ELSE IF quad_pos = 1
            THEN [ raised |-> Some(Lit("Invalid base64-encoded string: number of data characters (")
                                   \o Decimal((bytes \div 3) * 4 + 1)
                                   \o Lit(") cannot be 1 more than a multiple of 4")),
                   bytes |-> 0 ]
            ELSE [raised |-> Some(Lit("Incorrect padding")), bytes |-> 0]
       ELSE IF s[i] = 61
       THEN IF quad_pos >= 2 /\ quad_pos + pads + 1 >= 4
            THEN [raised |-> None, bytes |-> bytes]
            ELSE a2b_base64(s, i + 1, quad_pos, IF quad_pos >= 2 THEN pads + 1 ELSE pads, bytes)
       ELSE IF ~IsData(s[i]) THEN a2b_base64(s, i + 1, quad_pos, pads, bytes)
       ELSE a2b_base64(s, i + 1, (quad_pos + 1) % 4, 0,
                       IF quad_pos = 0 THEN bytes ELSE bytes + 1)

\* base64.b64decode(audio_base64) for a str: the string is encoded as ASCII,
\* which raises ValueError for any other character, and handed to a2b_base64
b64decode(s) ==
    IF \E i \in 1..Len(s) : s[i] > 127
    THEN [ raised |-> Some(Lit("string argument should contain only ASCII characters")),
           bytes |-> 0 ]
    ELSE a2b_base64(s, 1, 0, 0, 0)

\* one recognize_once call of a request: the recogniser takes its language
\* from the shared speech_config at the moment it is created
Attempt(method, config, audio, result) ==
    [ method |-> method,
      language |-> config.speech_recognition_language,
      audio_bytes |-> audio.bytes,
      result |-> result ]

\* the condition under which the first method returns its result
format_attempt_returns(result) ==
    result.reason = "RecognizedSpeech" /\ strip(result.text) # EmptyStr

\* _process_recognition_result; the confidence in hundredths
process_recognition_result(result) ==
    IF result.reason = "RecognizedSpeech"
    THEN [ text |-> result.text,
           confidence |-> IF result.confidence = None THEN 0 ELSE result.confidence[1] ]
    ELSE [text |-> EmptyStr, confidence |-> 0]

\* voice chosen by text_to_speech: the one asked for, else the one of the language
synthesis_voice(language, voice) ==
    IF voice # None /\ voice[1] # EmptyStr THEN voice[1] ELSE voice_mappings(language_mappings(language))

\* self.speech_config.speech_synthesis_voice_name = voice
configure_synthesis(config, language, voice) ==
    [config EXCEPT !.speech_synthesis_voice_name = Some(synthesis_voice(language, voice))]

(***************************************************************************)
(* Inputs                                                                  *)
(***************************************************************************)
MaxHistory == 6
MaxTruncLines == 6
MaxClassifyLines == 2
MaxConfFrags == 3
MaxDiseaseTerms == 2
MaxSuggestWords == 2
MaxQueryWords == 2
MaxTasks == 2

\* all sequences over S of length at most n
SeqsUpTo(S, n) == UNION { [1..k -> S] : k \in 0..n }

\* str(i) of a one-digit number
Digit(i) == <<48 + i>>

\* strs with characters outside ASCII that the str operations of the code
\* treat as spaces, digits or letters: the Kannada digits five and two, the
\* Kannada digit one with a full stop, a Kannada word, a no-break space
\* with a line tabulation, a file separator with an em space, the Kelvin sign
\* and the capital I with a dot above
KannadaFiftyTwo == <<3307, 3304>>
KannadaOneDot == <<3303, 46, 32>>
KannadaWord == <<3256, 3256, 3277, 3247, 3223, 3251, 3240, 3277, 3240, 3265>>
LeadingSpaces == <<160, 11>>
TrailingSpaces == <<28, 8195>>
LineTabulation == <<11>>
KelvinSign == <<8490>>
DottedCapitalI == <<304>>

\* texts of up to MaxTruncLines lines, each an action line, a remedy line or a
\* narrative line, told apart by the line number they end with
LineKinds == { Lit("Spray crop "), Lit("Use neem "), Lit("Note ") }
TruncTexts ==
    { Join([i \in 1..Len(ks) |-> ks[i] \o Digit(i)], Lit("\n")) : ks \in SeqsUpTo(LineKinds, MaxTruncLines) }

\* texts of up to MaxClassifyLines lines taken from one line of each shape
ClassifyPool ==
    { Lit("1. Remove affected leaves immediately"),
      Lit("Apply neem oil spray twice a week"),
      Lit("1. Mix turmeric paste"),
      Lit("2. Neem cake in soil"),
      Lit("4. Wash with soap"),
      Lit("3. Dig"),
      Lit("2. Hoe bed"),
      Lit("2. Hoe beds"),
      Lit("12.5 kg of sulphur"),
      Lit("  Prune Early ") \o <<9>>,
      LeadingSpaces \o Lit("Apply ash") \o TrailingSpaces,
      KannadaOneDot \o KannadaWord,
      DottedCapitalI \o Lit("SOLATE sick plants"),
      Lit("Use wood ash here"),
      Lit("Leaf Spot and rust seen"),
      EmptyStr }
ClassifyTexts == { Join(ls, Lit("\n")) : ls \in SeqsUpTo(ClassifyPool, MaxClassifyLines) }

\* texts made of up to MaxConfFrags pieces of a confidence statement
ConfFrags ==
    { Lit("Confidence: "), Lit("82"), Lit("150"), Lit("%"), Lit(" percent"), Lit(" confidence"), Lit(" "),
      KannadaFiftyTwo, Lit("conf") \o DottedCapitalI \o Lit("dence:") \o LeadingSpaces }
ConfTexts == { Join(fs, EmptyStr) : fs \in SeqsUpTo(ConfFrags, MaxConfFrags) }

\* texts naming up to MaxDiseaseTerms diseases, in any order and casing
DiseasePool ==
    { Lit("Rust"), Lit("BLIGHT"), Lit("leaf spot"), Lit("Powdery Mildew"), Lit("downy mildew"), Lit("whitefly"), Lit("healthy"),
      Lit("CAN") \o KelvinSign \o Lit("ER"), Lit("W") \o DottedCapitalI \o Lit("LT") }
DiseaseTexts == { Join(ds, Lit(" and ")) : ds \in SeqsUpTo(DiseasePool, MaxDiseaseTerms) }

\* every vocabulary term on its own, and the compound mildew terms in a sentence
VocabularyTexts ==
    { diseases[k] : k \in 1..Len(diseases) }
    \cup { Lit("Powdery mildew on the leaves"), Lit("DOWNY MILDEW"), Lit("No disease seen") }

\* confidence statements that several patterns match, or only the last one
ExampleTexts ==
    { Lit("confidence: 82%"),
      Lit("90 percent confidence"),
      Lit("About 90 percent sure. Confidence: 82"),
      Lit("70% confidence, then confidence: 82%"),
      Lit("Confidence: 82%, confidence: 150%") }

\* completions whose content is a list of content parts, not a str
ListCompletions == { ListContent(Lit("Apply neem oil")), ListContent(EmptyStr) }

ParseInputs ==
    { StrContent(t) :
        t \in TruncTexts \cup ClassifyTexts \cup ConfTexts \cup DiseaseTexts \cup ExampleTexts
              \cup VocabularyTexts }
    \cup ListCompletions

\* messages of up to MaxSuggestWords words, keywords of the four sets in mixed
\* case and inside longer words among them
SuggestWords ==
    { Lit("Yellow"), Lit("SPOTS"), Lit("insects"), Lit("mandi"), Lit("Price"), Lit("loan"), Lit("Schemes"),
      Lit("rain"), Lit("Irrigation"), Lit("tomato"), Lit("hello"),
      Lit("MAR") \o KelvinSign \o Lit("ET"), Lit("PR") \o DottedCapitalI \o Lit("CE") }
SuggestMessages ==
    { Join(ws, Lit(" ")) : ws \in SeqsUpTo(SuggestWords, MaxSuggestWords) }
    \cup { Lit("My tomato leaves have yellow spots"),
            Lit("[Please respond in Kannada language] Namaskara") }

\* scheme searches: queries of up to MaxQueryWords words, with no category,
\* an empty one, or one of the four categories of the database
QueryWords ==
    { Lit("loan"), Lit("Credit"), Lit("insurance"), Lit("crop"), Lit("water"), Lit("farmers"), Lit("xyz"),
      Lit("crop") \o LineTabulation \o Lit("xyz"), KelvinSign \o Lit("CC") }
SchemeQueries == { Join(ws, Lit(" ")) : ws \in SeqsUpTo(QueryWords, MaxQueryWords) }
Categories == { None, Some(EmptyStr), Some(Lit("subsidy")), Some(Lit("loan")), Some(Lit("insurance")), Some(Lit("training")) }
SchemeRequests ==
    { [route |-> "schemes/search", query |-> q, category |-> c] :
        q \in SchemeQueries, c \in Categories }

\* audio payloads, the audio_base64 of the request: the start of a WAV file,
\* the empty string, a WAV behind a data-URL prefix (one data character too
\* many), and a string that is not ASCII
Speech == Lit("UklGRiQAAABXQVZFZm10")
EmptyAudio == EmptyStr
DataUrlAudio == Lit("data:audio/wav;base64,UklGRg==")
NonAsciiAudio == <<233>>

SpeechToTextRequests ==
    { [route |-> "speech-to-text", audio_base64 |-> Speech, language |-> Lit("kn")],
      [route |-> "speech-to-text", audio_base64 |-> Speech, language |-> Lit("en-US")],
      [route |-> "speech-to-text", audio_base64 |-> EmptyAudio, language |-> Lit("hi")],
      [route |-> "speech-to-text", audio_base64 |-> DataUrlAudio, language |-> Lit("en-US")],
      [route |-> "speech-to-text", audio_base64 |-> NonAsciiAudio, language |-> Lit("kn")] }
TextToSpeechRequests ==
    { [route |-> "text-to-speech", text |-> Lit("Namaskara"), language |-> Lit("kn"), voice |-> None] }
SpeechRequests == SpeechToTextRequests \cup TextToSpeechRequests

RecognitionResults ==
    { RecognizedSpeech(Lit("namaskara"), Some(93)), RecognizedSpeech(Lit(" "), None),
      NoMatch, Canceled, Raised(Lit("SPXERR_INVALID_HEADER")) }
SynthesisResults == { "SynthesizingAudioCompleted", "Canceled" }

\* a request that has arrived and not been served yet; audio_data is the local
\* of the speech-to-text route, unset until the payload is decoded
Arrived(req) ==
    [ request |-> req, pc |-> "received", audio_data |-> None, attempts |-> <<>>,
      http_response |-> NoResponse ]

\* chat requests as the HTTP layer hands them over
Roles == { Lit("user"), Lit("assistant"), Lit("system") }
ChatTexts == { Lit("My tomato leaves have yellow spots"), Lit("Namaskara") }
Languages == { Some(Lit("en")), Some(Lit("kn")), Some(Lit("hi")), None }

\* ChatMessage.dict() of the i-th history entry
HistoryEntry(role, i) == [role |-> role, content |-> Lit("turn ") \o Digit(i), timestamp |-> None]
Histories ==
    { [i \in 1..Len(rs) |-> HistoryEntry(rs[i], i)] : rs \in SeqsUpTo(Roles, MaxHistory) }

ChatRequests ==
    { [route |-> "message", message |-> m, conversation_history |-> h, language |-> l] :
        m \in ChatTexts, h \in Histories, l \in Languages }

\* str(e) of the OSError that loading the pixels of a payload cut off after
\* its header raises
Truncated == Lit("image file is truncated (0 bytes not processed)")

\* image requests: the payload as base64 decoding and Image.open find it:
\* whether it opens (the header parses), the size and the mode of the header
\* (RGB for a JPEG, RGBA for a PNG with an alpha channel, P for a GIF), and
\* the error, if any, that decoding its pixel data raises later
Images ==
    { [id |-> "garbage", opens |-> FALSE, size |-> <<0, 0>>, mode |-> "none", load_error |-> None],
      [id |-> "thumb", opens |-> TRUE, size |-> <<40, 40>>, mode |-> "RGB", load_error |-> None],
      [id |-> "leaf", opens |-> TRUE, size |-> <<800, 600>>, mode |-> "RGB", load_error |-> None],
      [id |-> "field", opens |-> TRUE, size |-> <<2048, 1023>>, mode |-> "RGB", load_error |-> None],
      [id |-> "strip", opens |-> TRUE, size |-> <<4000, 50>>, mode |-> "L", load_error |-> None],
      [id |-> "cutout", opens |-> TRUE, size |-> <<800, 600>>, mode |-> "RGBA", load_error |-> None],
      [id |-> "chart", opens |-> TRUE, size |-> <<2048, 1024>>, mode |-> "P", load_error |-> None],
      [id |-> "torn", opens |-> TRUE, size |-> <<800, 600>>, mode |-> "RGB",
       load_error |-> Some(Truncated)],
      [id |-> "tornwide", opens |-> TRUE, size |-> <<3000, 2000>>, mode |-> "RGBA",
       load_error |-> Some(Truncated)] }
Queries == { EmptyStr, Lit("Why are the leaves curling?") }

ImageRequests ==
    { [route |-> "analyze-image", image |-> im, query |-> q, language |-> l] :
        im \in Images, q \in Queries, l \in Languages }

\* what the awaited chat_model.ainvoke can produce
Completed(content) == [ok |-> TRUE, content |-> content, error |-> EmptyStr]
Failed(error) == [ok |-> FALSE, content |-> StrContent(EmptyStr), error |-> error]

Completions ==
    { StrContent(Lit("Leaf blight detected.\nConfidence: 82%\n1. Remove affected leaves immediately\nApply neem oil spray twice a week")),
      StrContent(Lit("Powdery mildew, 150% confidence\nSpray sulphur")),
      StrContent(EmptyStr),
      ListContent(Lit("Apply neem oil")) }
Errors == { Lit("Connection error."), Lit("Request timed out.") }
Outcomes == { Completed(c) : c \in Completions } \cup { Failed(e) : e \in Errors }

\* chat and image requests served at the same time, and what their awaited
\* calls can produce
ServeRequests ==
    { [ route |-> "message", message |-> Lit("Namaskara"),
        conversation_history |-> <<>>, language |-> Some(Lit("kn")) ],
      [ route |-> "message", message |-> Lit("My tomato leaves have yellow spots"),
        conversation_history |-> <<HistoryEntry(Lit("user"), 1), HistoryEntry(Lit("assistant"), 2)>>,
        language |-> Some(Lit("en")) ],
      [ route |-> "analyze-image",
        image |-> [id |-> "garbage", opens |-> FALSE, size |-> <<0, 0>>, mode |-> "none",
                   load_error |-> None],
        query |-> EmptyStr, language |-> Some(Lit("en")) ],
      [ route |-> "analyze-image",
        image |-> [id |-> "leaf", opens |-> TRUE, size |-> <<800, 600>>, mode |-> "RGB",
                   load_error |-> None],
        query |-> Lit("Why are the leaves curling?"), language |-> Some(Lit("kn")) ],
      [ route |-> "analyze-image",
        image |-> [id |-> "cutout", opens |-> TRUE, size |-> <<800, 600>>, mode |-> "RGBA",
                   load_error |-> None],
        query |-> Lit("Why are the leaves curling?"), language |-> Some(Lit("kn")) ],
      [ route |-> "analyze-image",
        image |-> [id |-> "torn", opens |-> TRUE, size |-> <<800, 600>>, mode |-> "RGB",
                   load_error |-> Some(Truncated)],
        query |-> EmptyStr, language |-> Some(Lit("en")) ] }
ServeOutcomes ==
    { Completed(StrContent(Lit("Powdery mildew, 150% confidence\nSpray sulphur"))),
      Completed(ListContent(Lit("Apply neem oil"))),
      Failed(Lit("Connection error.")) }
Settings == { Configured, NoApiKey, NoEndpoint }

\* a chat or image request that has arrived and not been served yet
Accepted(req) ==
    [ request |-> req, pc |-> "received", got |-> None, messages |-> <<>>,
      llm_outcome |-> None, http_response |-> NoResponse ]

(***************************************************************************)
(* Routes                                                                  *)
(***************************************************************************)
\* POST /message up to the await: get the service, build the context, call the model
SendMessageCall ==
    /\ pc = "received"
    /\ request.route = "message"
    /\ messages' = build_chat_messages(request.message, request.conversation_history,
                                       request.language)
    /\ request' = [request EXCEPT
                      !.conversation_history = conversation_history_after(@)]
    /\ llm_calls' = llm_calls + 1
    /\ pc' = "awaiting"
    /\ UNCHANGED <<llm_outcome, response_text, analysis_result, suggested_actions,
                   http_response>>
    /\ UNCHANGED process_vars

\* send_message_response answering a failure with a reply instead of an error
send_message_response_Apology(req, outcome) ==
    IF ~outcome.ok
    THEN Ok(chat_result(req.message, req.language,
                        Lit("I'm sorry, I encountered an error: ") \o outcome.error))
    ELSE IF outcome.content.pytype # "str"
    THEN HTTPException(HTTP_SERVER_ERROR, Lit("Failed to process message: validation error"))
    ELSE Ok(chat_result(req.message, req.language, outcome.content.text))

\* the number of ainvoke calls once the await of process_chat_message is over:
\* after a success nothing calls the model, and the except block logs and
\* re-raises
chat_calls_after(calls, outcome) == calls

\* the response of send_message for the outcome of the awaited call: a failure
\* is re-raised by the service and turned into a 500 by the route; a content
\* that is not a str fails ChatResponse validation inside the same try block
send_message_response(req, outcome) ==
    IF ~outcome.ok
    THEN HTTPException(HTTP_SERVER_ERROR, Lit("Failed to process message: ") \o outcome.error)
    ELSE IF outcome.content.pytype # "str"
    THEN HTTPException(HTTP_SERVER_ERROR, Lit("Failed to process message: validation error"))
    ELSE Ok(chat_result(req.message, req.language, outcome.content.text))

\* _get_suggested_actions is called once the await has returned, on the
\* message as it was sent; a failed await leaves it uncalled
suggestions_after(req, outcome) ==
    IF outcome.ok
    THEN Some(get_suggested_actions(DirectedText(req.message, req.language)))
    ELSE None

\* POST /message from the await on
SendMessageReturn ==
    /\ pc = "awaiting"
    /\ request.route = "message"
    /\ \E outcome \in Outcomes :
          /\ llm_outcome' = Some(outcome)
          /\ llm_calls' = chat_calls_after(llm_calls, outcome)
          /\ suggested_actions' = suggestions_after(request, outcome)
          /\ http_response' = send_message_response(request, outcome)
    /\ pc' = "responded"
    /\ UNCHANGED <<request, messages, response_text, analysis_result>>
    /\ UNCHANGED process_vars

\* the 400 that analyze_crop_image (the route) raises before calling the service
image_rejection(image) ==
    IF ~image.opens THEN Some(HTTPException(HTTP_BAD_REQUEST, Lit("Invalid image data")))
    ELSE IF image.size[1] < MinImageDim \/ image.size[2] < MinImageDim
    THEN Some(HTTPException(HTTP_BAD_REQUEST, Lit("Image too small for analysis")))
    ELSE None

\* the response of the route for the dict the service returned: an analysis
\* that is not a str fails ImageAnalysisResponse validation
analyze_image_response(result) ==
    IF result.analysis.pytype # "str"
    THEN HTTPException(HTTP_SERVER_ERROR, Lit("Failed to analyze image: validation error"))
    ELSE Ok([ analysis |-> result.analysis.text,
              disease_detected |-> result.disease_detected,
              confidence_score |-> result.confidence_score,
              recommended_actions |-> result.recommended_actions,
              local_remedies |-> result.local_remedies ])

\* POST /analyze-image up to the await, or to the response when the route
\* rejects the image or the service cannot save it as JPEG
AnalyzeImageCall ==
    /\ pc = "received"
    /\ request.route = "analyze-image"
    /\ IF image_rejection(request.image) # None
       THEN /\ http_response' = image_rejection(request.image)[1]
            /\ pc' = "responded"
            /\ UNCHANGED <<messages, llm_calls, analysis_result>>
       ELSE IF analyze_before_await(request.image) # None
       THEN /\ analysis_result' = analyze_before_await(request.image)
            /\ http_response' = analyze_image_response(analyze_before_await(request.image)[1])
            /\ pc' = "responded"
            /\ UNCHANGED <<messages, llm_calls>>
       ELSE /\ messages' = build_image_messages(request.image, request.query, request.language)
            /\ llm_calls' = llm_calls + 1
            /\ pc' = "awaiting"
            /\ UNCHANGED <<http_response, analysis_result>>
    /\ UNCHANGED <<request, llm_outcome, response_text, suggested_actions>>
    /\ UNCHANGED process_vars

\* POST /analyze-image from the await on
AnalyzeImageReturn ==
    /\ pc = "awaiting"
    /\ request.route = "analyze-image"
    /\ \E outcome \in Outcomes :
          /\ llm_outcome' = Some(outcome)
          /\ response_text' = (IF outcome.ok THEN Some(outcome.content) ELSE None)
          /\ analysis_result' = Some(analyze_outcome(outcome))
          /\ llm_calls' = llm_calls
          /\ http_response' = analyze_image_response(analyze_outcome(outcome))
    /\ pc' = "responded"
    /\ UNCHANGED <<request, messages, suggested_actions>>
    /\ UNCHANGED process_vars

\* one call of _parse_image_analysis on its own
ParseImageAnalysis ==
    /\ pc = "parse_called"
    /\ analysis_result' = Some(parse_image_analysis(response_text[1]))
    /\ pc' = "parse_returned"
    /\ UNCHANGED <<request, messages, llm_calls, llm_outcome, response_text, suggested_actions,
                   http_response>>
    /\ UNCHANGED process_vars

\* GET /schemes/search
SearchGovernmentSchemes ==
    /\ pc = "received"
    /\ request.route = "schemes/search"
    /\ http_response' = Ok(search_schemes(request.query, request.category))
    /\ pc' = "responded"
    /\ UNCHANGED <<request, messages, llm_calls, llm_outcome, response_text, analysis_result,
                   suggested_actions>>
    /\ UNCHANGED process_vars

\* one call of _get_suggested_actions on its own
GetSuggestedActions ==
    /\ pc = "suggest_called"
    /\ suggested_actions' = Some(get_suggested_actions(request.message))
    /\ pc' = "suggest_returned"
    /\ UNCHANGED <<request, messages, llm_calls, llm_outcome, response_text, analysis_result,
                   http_response>>
    /\ UNCHANGED process_vars

(***************************************************************************)
(* Routes of api/routes/speech.py, several requests at a time.  A coroutine *)
(* keeps the event loop until it awaits something that suspends or returns. *)
(***************************************************************************)
\* whether speech_to_text gives up the event loop between setting the
\* recognition language (line 67) and creating its recognisers (lines 83 and
\* 112): it awaits nothing, recognize_once is a blocking call
yields_before_recognizer_Suspending == TRUE
yields_before_recognizer == FALSE

\* fallback_response with a failure of the second method answered as no speech
fallback_response_Swallowed(result) == Ok(process_recognition_result(result))

\* the answer of the route to the result of the second method: an exception
\* is re-raised twice by the service and made a 500 by the route
fallback_response(result) ==
    IF result.reason = "raised"
    THEN HTTPException(HTTP_SERVER_ERROR, Lit("Speech recognition failed: ") \o result.error)
    ELSE Ok(process_recognition_result(result))

\* the answer of the text-to-speech route to the outcome of the synthesis
synthesis_response(reason) ==
    IF reason = "SynthesizingAudioCompleted"
    THEN Ok([audio_base64 |-> Lit("UklGRg=="), format |-> Lit("wav")])
    ELSE HTTPException(HTTP_SERVER_ERROR,
                       Lit("Speech synthesis failed: Speech synthesis failed: ResultReason.")
                           \o Lit(reason))

\* POST /speech-to-text up to the first recogniser: decode the audio, map the
\* language and set it on the shared speech_config
SpeechToTextCall(t) ==
    /\ running = None
    /\ tasks[t].pc = "received"
    /\ tasks[t].request.route = "speech-to-text"
    /\ LET audio_data == b64decode(tasks[t].request.audio_base64)
       IN IF audio_data.raised # None
          THEN /\ tasks' = [tasks EXCEPT
                              ![t].pc = "responded",
                              ![t].http_response =
                                  HTTPException(HTTP_SERVER_ERROR,
                                                Lit("Speech recognition failed: ")
                                                  \o audio_data.raised[1])]
               /\ UNCHANGED <<running, speech_config>>
          ELSE /\ speech_config' = configure_recognition(speech_config, tasks[t].request.language)
               /\ tasks' = [tasks EXCEPT ![t].pc = "configured", ![t].audio_data = Some(audio_data)]
               /\ running' = (IF yields_before_recognizer THEN None ELSE Some(t))
    /\ UNCHANGED <<settings, langchain_service, constructed>>
    /\ UNCHANGED request_vars

\* method 1: a recogniser with the 16 kHz format, one recognize_once
RecognizeWithFormat(t) ==
    /\ running \in {None, Some(t)}
    /\ tasks[t].pc = "configured"
    /\ \E result \in RecognitionResults :
          LET attempt == Attempt("format", speech_config, tasks[t].audio_data[1], result)
          IN IF format_attempt_returns(result)
             THEN /\ tasks' = [tasks EXCEPT
                                 ![t].pc = "responded",
                                 ![t].attempts = Append(@, attempt),
                                 ![t].http_response = Ok(process_recognition_result(result))]
                  /\ running' = None
             ELSE /\ tasks' = [tasks EXCEPT
                                 ![t].pc = "fallback",
                                 ![t].attempts = Append(@, attempt)]
                  /\ running' = Some(t)
    /\ UNCHANGED <<settings, langchain_service, constructed, speech_config>>
    /\ UNCHANGED request_vars

\* method 2: a recogniser without format, one recognize_once
RecognizeFallback(t) ==
    /\ running \in {None, Some(t)}
    /\ tasks[t].pc = "fallback"
    /\ \E result \in RecognitionResults :
          tasks' = [tasks EXCEPT
                      ![t].pc = "responded",
                      ![t].attempts =
                          Append(@, Attempt("fallback", speech_config, tasks[t].audio_data[1], result)),
                      ![t].http_response = fallback_response(result)]
    /\ running' = None
    /\ UNCHANGED <<settings, langchain_service, constructed, speech_config>>
    /\ UNCHANGED request_vars

\* POST /text-to-speech: set the voice on the shared speech_config, synthesise
TextToSpeech(t) ==
    /\ running = None
    /\ tasks[t].pc = "received"
    /\ tasks[t].request.route = "text-to-speech"
    /\ speech_config' = configure_synthesis(speech_config, tasks[t].request.language,
                                            tasks[t].request.voice)
    /\ \E reason \in SynthesisResults :
          tasks' = [tasks EXCEPT
                      ![t].pc = "responded",
                      ![t].http_response = synthesis_response(reason)]
    /\ UNCHANGED <<running, settings, langchain_service, constructed>>
    /\ UNCHANGED request_vars

(***************************************************************************)
(* Routes of api/routes/chat.py, several requests at a time: a request     *)
(* runs from its arrival to the await of chat_model.ainvoke, and from the  *)
(* completion of that call to its response, without giving up the loop.    *)
(***************************************************************************)
\* LangChainService.__init__: the ValueError raised for the settings, if any
construction_error(s) ==
    IF s.azure_openai_api_key = EmptyStr
    THEN Some(Lit("AZURE_OPENAI_API_KEY environment variable is required"))
    ELSE IF s.azure_openai_endpoint = EmptyStr
    THEN Some(Lit("AZURE_OPENAI_ENDPOINT environment variable is required"))
    ELSE None

\* get_langchain_service constructing a service on every call
get_langchain_service_Fresh(global, s, n) ==
    IF construction_error(s) # None
    THEN [service |-> None, raised |-> construction_error(s), global |-> global, constructed |-> n]
    ELSE [ service |-> Some(LangChainService(n + 1)), raised |-> None,
           global |-> Some(LangChainService(n + 1)), constructed |-> n + 1 ]

\* get_langchain_service() with the global at global, the settings s and n
\* instances constructed so far: what it returns or raises, the global and
\* the number of instances after it
get_langchain_service(global, s, n) ==
    IF global # None
    THEN [service |-> global, raised |-> None, global |-> global, constructed |-> n]
    ELSE IF construction_error(s) # None
    THEN [service |-> None, raised |-> construction_error(s), global |-> None, constructed |-> n]
    ELSE [ service |-> Some(LangChainService(n + 1)), raised |-> None,
           global |-> Some(LangChainService(n + 1)), constructed |-> n + 1 ]

\* service_after with the message of the request saved in self.memory
service_after_Remembering(service, req) ==
    [service EXCEPT !.memory = Append(@, req.route)]

\* the service instance once a request has gone through process_chat_message
\* or analyze_crop_image up to the await: neither assigns an attribute of self
\* nor calls self.memory
service_after(service, req) == service

\* what the route puts before the message of an exception it did not raise
failure_prefix(route) ==
    IF route = "message" THEN Lit("Failed to process message: ") ELSE Lit("Failed to analyze image: ")

\* the 400 of the image route; the chat route has none
request_rejection(req) ==
    IF req.route = "analyze-image" THEN image_rejection(req.image) ELSE None

\* the message list that the request passes to chat_model.ainvoke
request_messages(req) ==
    IF req.route = "message"
    THEN build_chat_messages(req.message, req.conversation_history, req.language)
    ELSE build_image_messages(req.image, req.query, req.language)

\* the response of the request's route to the outcome of its awaited call
request_response(req, outcome) ==
    IF req.route = "message" THEN send_message_response(req, outcome)
    ELSE analyze_image_response(analyze_outcome(outcome))

\* send_message / analyze_crop_image up to the await: reject the image, get
\* the service, build the messages, call the model; an image that the service
\* cannot save as JPEG is answered with the fallback dict without a call
ServeCall(t) ==
    /\ tasks[t].pc = "received"
    /\ LET req == tasks[t].request
           got == get_langchain_service(langchain_service, settings, constructed)
       IN IF request_rejection(req) # None
          THEN /\ tasks' = [tasks EXCEPT
                              ![t].pc = "responded",
                              ![t].http_response = request_rejection(req)[1]]
               /\ UNCHANGED <<langchain_service, constructed>>
          ELSE IF got.raised # None
          THEN /\ tasks' = [tasks EXCEPT
                              ![t].pc = "responded",
                              ![t].got = Some([ service |-> got.service, raised |-> got.raised,
                                                constructing |-> got.constructed # constructed ]),
                              ![t].http_response =
                                  HTTPException(HTTP_SERVER_ERROR,
                                                failure_prefix(req.route) \o got.raised[1])]
               /\ langchain_service' = got.global
               /\ constructed' = got.constructed
          ELSE IF req.route = "analyze-image" /\ analyze_before_await(req.image) # None
          THEN /\ tasks' = [tasks EXCEPT
                              ![t].pc = "responded",
                              ![t].got = Some([ service |-> got.service, raised |-> got.raised,
                                                constructing |-> got.constructed # constructed ]),
                              ![t].http_response =
                                  analyze_image_response(analyze_before_await(req.image)[1])]
               /\ langchain_service' = Some(service_after(got.global[1], req))
               /\ constructed' = got.constructed
          ELSE /\ tasks' = [tasks EXCEPT
                              ![t].pc = "awaiting",
                              ![t].got = Some([ service |-> got.service, raised |-> got.raised,
                                                constructing |-> got.constructed # constructed ]),
                              ![t].messages = request_messages(req),
                              ![t].request = IF req.route = "message"
                                             THEN [req EXCEPT !.conversation_history =
                                                                 conversation_history_after(@)]
                                             ELSE req]
               /\ langchain_service' = Some(service_after(got.global[1], req))
               /\ constructed' = got.constructed
    /\ UNCHANGED <<running, settings, speech_config>>
    /\ UNCHANGED request_vars

\* send_message / analyze_crop_image from the await on
ServeReturn(t) ==
    /\ tasks[t].pc = "awaiting"
    /\ \E outcome \in ServeOutcomes :
          tasks' = [tasks EXCEPT
                      ![t].pc = "responded",
                      ![t].llm_outcome = Some(outcome),
                      ![t].http_response = request_response(tasks[t].request, outcome)]
    /\ UNCHANGED process_state
    /\ UNCHANGED request_vars

(***************************************************************************)
(* Specifications                                                          *)
(***************************************************************************)
\* no request of the single-request kind is being served
NoRequest ==
    /\ messages = <<>>
    /\ llm_calls = 0
    /\ llm_outcome = None
    /\ analysis_result = NoResult
    /\ suggested_actions = None
    /\ http_response = NoResponse

\* the process as a single request finds it: configured, the LangChain
\* service constructed by an earlier request, no other request in flight
ServiceReady ==
    /\ tasks = <<>>
    /\ running = None
    /\ settings = Configured
    /\ langchain_service = Some(LangChainService(1))
    /\ constructed = 1
    /\ speech_config = SpeechConfig

Idle == NoRequest /\ ServiceReady

\* one chat request
InitChat ==
    /\ pc = "received"
    /\ request \in ChatRequests
    /\ response_text = None
    /\ Idle
NextChat == SendMessageCall \/ SendMessageReturn
SpecChat == InitChat /\ [][NextChat]_vars

\* one image-analysis request
InitImage ==
    /\ pc = "received"
    /\ request \in ImageRequests
    /\ response_text = None
    /\ Idle
NextImage == AnalyzeImageCall \/ AnalyzeImageReturn
SpecImage == InitImage /\ [][NextImage]_vars

\* one request to either route
InitRequests == InitChat \/ InitImage
NextRequests == SendMessageCall \/ SendMessageReturn \/ AnalyzeImageCall \/ AnalyzeImageReturn
SpecRequests == InitRequests /\ [][NextRequests]_vars

\* one scheme search
InitSchemes ==
    /\ pc = "received"
    /\ request \in SchemeRequests
    /\ response_text = None
    /\ Idle
NextSchemes == SearchGovernmentSchemes
SpecSchemes == InitSchemes /\ [][NextSchemes]_vars

\* the single-request variables when the requests are in tasks
NoSingleRequest ==
    /\ pc = "serving"
    /\ request = [route |-> "none"]
    /\ response_text = None
    /\ NoRequest

\* MaxTasks speech requests served by one process
InitSpeech ==
    /\ tasks \in [1..MaxTasks -> { Arrived(req) : req \in SpeechRequests }]
    /\ running = None
    /\ speech_config = SpeechConfig
    /\ settings = Configured
    /\ langchain_service = None
    /\ constructed = 0
    /\ NoSingleRequest
NextSpeech ==
    \E t \in 1..MaxTasks :
        \/ SpeechToTextCall(t)
        \/ RecognizeWithFormat(t)
        \/ RecognizeFallback(t)
        \/ TextToSpeech(t)
SpecSpeech == InitSpeech /\ [][NextSpeech]_vars

\* MaxTasks chat and image requests served by one process that has just
\* started: the settings as the environment gave them, no service yet
InitServe ==
    /\ tasks \in [1..MaxTasks -> { Accepted(req) : req \in ServeRequests }]
    /\ running = None
    /\ speech_config = SpeechConfig
    /\ settings \in Settings
    /\ langchain_service = None
    /\ constructed = 0
    /\ NoSingleRequest
NextServe ==
    \E t \in 1..MaxTasks :
        \/ ServeCall(t)
        \/ ServeReturn(t)
SpecServe == InitServe /\ [][NextServe]_vars

\* the response parser applied to one completion
InitParse ==
    /\ pc = "parse_called"
    /\ request = [route |-> "none"]
    /\ response_text \in { Some(c) : c \in ParseInputs }
    /\ Idle
NextParse == ParseImageAnalysis
SpecParse == InitParse /\ [][NextParse]_vars

\* the suggestion heuristic applied to one message
InitSuggest ==
    /\ pc = "suggest_called"
    /\ request \in { [route |-> "none", message |-> m] : m \in SuggestMessages }
    /\ response_text = None
    /\ Idle
NextSuggest == GetSuggestedActions
SpecSuggest == InitSuggest /\ [][NextSuggest]_vars

(***************************************************************************)
(* Properties of _parse_image_analysis, checked under SpecParse            *)
(***************************************************************************)
Parsed == pc = "parse_returned"
ParsedStr == Parsed /\ response_text[1].pytype = "str"
ParseInput == response_text[1]
ParseResult == analysis_result[1]

EmptyLists == [actions |-> <<>>, remedies |-> <<>>]

\* the trimmed lines of the input, in order
StrippedLines(text) ==
    LET lines == split_lines(text) IN [k \in 1..Len(lines) |-> strip(lines[k])]

\* what one loop iteration does with a line, taken on its own
IsActionLine(line) == ClassifyLine(EmptyLists, line).actions # <<>>
IsRemedyLine(line) == ClassifyLine(EmptyLists, line).remedies # <<>>

HasActionVerb(line) == AnyIn(action_words, lower(line))
HasRemedyTerm(line) == AnyIn(remedy_words, lower(line))
IsNumberedLine(line) == NumberedMatch(line) /\ Len(line) > 10

InSeq(x, xs) == \E i \in 1..Len(xs) : xs[i] = x

\* C1: whatever the input, and on the normal and the exception path alike,
\* the "analysis" field of the result is the input, unmodified.
C1_RawTextPreserved ==
    Parsed => ParseResult.analysis = ParseInput

\* a str input that lower-casing and trimming would change has been parsed and
\* something was extracted from it
C1_Witness ==
    /\ ParsedStr
    /\ lower(ParseInput.text) # ParseInput.text
    /\ strip(ParseInput.text) # ParseInput.text
    /\ ParseResult.recommended_actions # <<>>

\* C2: when parsing raises, the call still returns, and what it returns is the
\* input as raw text with no disease, no score and both lists empty.
C2_FallbackOnException ==
    (Parsed /\ ParseInput.pytype # "str") =>
        /\ ParseResult.analysis = ParseInput
        /\ ParseResult.disease_detected = None
        /\ ParseResult.confidence_score = None
        /\ ParseResult.recommended_actions = <<>>
        /\ ParseResult.local_remedies = <<>>

\* a completion that is a list of parts, whose text as a str would have given
\* a remedy, went through the except block
C2_Witness ==
    /\ Parsed
    /\ ParseInput.pytype = "list"
    /\ parse_image_analysis(StrContent(ParseInput.text)).local_remedies # <<>>
    /\ ParseResult.local_remedies = <<>>

\* C4: a confidence score that is present lies in [0, 1], i.e. the captured
\* integer lies in 0..100.
C4_ConfidenceInUnitInterval ==
    (ParsedStr /\ ParseResult.confidence_score # None) =>
        (0 <= ParseResult.confidence_score[1] /\ ParseResult.confidence_score[1] <= 100)

\* C5: a numbered line longer than 10 characters is a remedy when it contains
\* one of the nine remedy terms and an action only when it contains none.
C5_NumberedLineRemedyTerms ==
    ParsedStr =>
        \A k \in 1..Len(StrippedLines(ParseInput.text)) :
            LET line == StrippedLines(ParseInput.text)[k]
            IN IsNumberedLine(line) =>
                  IF HasRemedyTerm(line)
                  THEN InSeq(line, ParseResult.local_remedies)
                       /\ ~InSeq(line, ParseResult.recommended_actions)
                  ELSE InSeq(line, ParseResult.recommended_actions)
                       /\ ~InSeq(line, ParseResult.local_remedies)

\* C9: the two lists are the first 5 action lines and the first 3 remedy
\* lines of the input, in the order of the input, so never longer than 5 and 3.
C9_FirstFiveAndThree ==
    ParsedStr =>
        LET lines == StrippedLines(ParseInput.text)
            allActions == SelectSeq(lines, IsActionLine)
            allRemedies == SelectSeq(lines, IsRemedyLine)
        IN /\ Len(ParseResult.recommended_actions) <= 5
           /\ Len(ParseResult.local_remedies) <= 3
           /\ ParseResult.recommended_actions
                = SubSeq(allActions, 1, IF Len(allActions) < 5 THEN Len(allActions) ELSE 5)
           /\ ParseResult.local_remedies
                = SubSeq(allRemedies, 1, IF Len(allRemedies) < 3 THEN Len(allRemedies) ELSE 3)

\* more than 5 lines of the input qualify as actions and 5 were returned
C9_Witness ==
    /\ ParsedStr
    /\ Len(SelectSeq(StrippedLines(ParseInput.text), HasActionVerb)) > 5
    /\ Len(ParseResult.recommended_actions) = 5
    /\ ParseResult.local_remedies = <<>>

\* C10: every line of the input goes to at most one of the two lists: each
\* loop iteration adds at most one entry to the two lists together, and the
\* lists returned hold no more entries than there are non-empty lines.
C10_OneCategoryPerLine ==
    ParsedStr =>
        LET lines == split_lines(ParseInput.text)
            Total(n) == Len(ClassifyLines(lines, n).actions) + Len(ClassifyLines(lines, n).remedies)
            nonEmpty == SelectSeq(StrippedLines(ParseInput.text), LAMBDA l : l # EmptyStr)
        IN /\ \A n \in 1..Len(lines) : Total(n) <= Total(n - 1) + 1
           /\ Len(ParseResult.recommended_actions) + Len(ParseResult.local_remedies)
                <= Len(nonEmpty)

\* a line with both an action verb and a remedy term was parsed: it is among
\* the remedies and not among the actions
C10_Witness ==
    /\ ParsedStr
    /\ \E k \in 1..Len(StrippedLines(ParseInput.text)) :
          LET line == StrippedLines(ParseInput.text)[k]
          IN /\ HasActionVerb(line)
             /\ HasRemedyTerm(line)
             /\ InSeq(line, ParseResult.local_remedies)
             /\ ~InSeq(line, ParseResult.recommended_actions)

\* the two lists as the loop leaves them, before they are cut to 5 and 3
AllLists == LET lines == split_lines(ParseInput.text) IN ClassifyLines(lines, Len(lines))

\* C11: a line with an action verb and a remedy term is a remedy and never an
\* action; a line with an action verb and no remedy term is an action.
C11_RemedyTakesPrecedence ==
    ParsedStr =>
        \A k \in 1..Len(StrippedLines(ParseInput.text)) :
            LET line == StrippedLines(ParseInput.text)[k]
            IN HasActionVerb(line) =>
                  IF HasRemedyTerm(line)
                  THEN /\ InSeq(line, AllLists.remedies)
                       /\ ~InSeq(line, AllLists.actions)
                       /\ ~InSeq(line, ParseResult.recommended_actions)
                  ELSE /\ InSeq(line, AllLists.actions)
                       /\ ~InSeq(line, AllLists.remedies)
                       /\ ~InSeq(line, ParseResult.local_remedies)

\* "Apply neem oil spray twice a week" was parsed next to a plain action line:
\* the first is the one remedy, the second the one action
C11_Witness ==
    /\ ParsedStr
    /\ ParseInput.text
         = Lit("Apply neem oil spray twice a week\n1. Remove affected leaves immediately")
    /\ ParseResult.local_remedies = << Lit("Apply neem oil spray twice a week") >>
    /\ ParseResult.recommended_actions = << Lit("1. Remove affected leaves immediately") >>

\* C12: a trimmed non-empty line is left out of both lists exactly when it has
\* no action verb and is not a numbered line longer than 10 characters; a
\* numbered line longer than 10 characters with no remedy term is an action.
C12_IgnoredLines ==
    ParsedStr =>
        \A k \in 1..Len(StrippedLines(ParseInput.text)) :
            LET line == StrippedLines(ParseInput.text)[k]
                ignored == ~InSeq(line, AllLists.actions) /\ ~InSeq(line, AllLists.remedies)
            IN line # EmptyStr =>
                  /\ ignored <=> (~HasActionVerb(line) /\ ~IsNumberedLine(line))
                  /\ ignored => /\ ~InSeq(line, ParseResult.recommended_actions)
                                /\ ~InSeq(line, ParseResult.local_remedies)
                  /\ (IsNumberedLine(line) /\ ~HasRemedyTerm(line))
                        => InSeq(line, AllLists.actions)

\* a numbered line of exactly 10 characters was parsed next to one of 11: the
\* first is ignored, the second is an action
C12_Witness ==
    /\ ParsedStr
    /\ ParseInput.text = Lit("2. Hoe bed\n2. Hoe beds")
    /\ ParseResult.recommended_actions = << Lit("2. Hoe beds") >>
    /\ ParseResult.local_remedies = <<>>

\* the vocabulary as it is stored in disease_detected
TitledDiseases ==
    << Lit("Blight"), Lit("Wilt"), Lit("Rust"), Lit("Mildew"), Lit("Mosaic"), Lit("Rot"), Lit("Canker"),
       Lit("Anthracnose"), Lit("Leaf Spot"), Lit("Powdery Mildew"), Lit("Downy Mildew"),
       Lit("Bacterial"), Lit("Fungal"), Lit("Viral"), Lit("Aphid"), Lit("Thrips"), Lit("Whitefly") >>

\* the places in the vocabulary of the terms that occur in the lower-cased text
TermsOccurring(text) == { k \in 1..Len(diseases) : Contains(diseases[k], lower(text)) }

\* C13: disease_detected is the title-cased term that comes first in the
\* vocabulary list among those occurring in the lower-cased text, wherever in
\* the text they occur; it is absent exactly when no term occurs.
C13_FirstDiseaseInListOrder ==
    ParsedStr =>
        LET occurring == TermsOccurring(ParseInput.text)
        IN IF occurring = {}
           THEN ParseResult.disease_detected = None
           ELSE ParseResult.disease_detected
                   = Some(TitledDiseases[CHOOSE k \in occurring : \A m \in occurring : k <= m])

\* "Rust and BLIGHT" was parsed: rust comes first in the text, blight first in
\* the vocabulary, and Blight is reported
C13_Witness ==
    /\ ParsedStr
    /\ ParseInput.text = Lit("Rust and BLIGHT")
    /\ ParseResult.disease_detected = Some(Lit("Blight"))

\* the positions of the text where pattern p matches
MatchStarts(p, text) == { i \in 1..Len(text) : PatternAt(p, text, i) # None }

\* the patterns that match somewhere in the text
PatternsMatching(text) == { p \in 1..NumPatterns : MatchStarts(p, text) # {} }

\* the score, in hundredths, that a text is expected to give
ExpectedScore(text) ==
    CASE text = Lit("confidence: 82%") -> Some(82)
      [] text = Lit("90 percent confidence") -> Some(90)
      [] text = Lit("About 90 percent sure. Confidence: 82") -> Some(82)
      [] text = Lit("70% confidence, then confidence: 82%") -> Some(82)
      [] text = Lit("Confidence: 82%, confidence: 150%") -> Some(82)

\* C14: confidence_score is the integer captured by the first pattern, in
\* priority order, that matches anywhere in the text, at the leftmost match of
\* that pattern, over 100, whatever later patterns match; it is absent exactly
\* when no pattern matches.  "confidence: 82%" gives 0.82 and "90 percent
\* confidence" gives 0.90.
C14_FirstPatternFirstLocation ==
    ParsedStr =>
        LET text == ParseInput.text
            matching == PatternsMatching(text)
        IN /\ (ParseResult.confidence_score = None) <=> (matching = {})
           /\ matching # {} =>
                 LET p == CHOOSE q \in matching : \A r \in matching : q <= r
                     i == CHOOSE j \in MatchStarts(p, text) :
                              \A m \in MatchStarts(p, text) : j <= m
                 IN ParseResult.confidence_score = Some(ParseInt(PatternAt(p, text, i)[1]))
           /\ text \in ExampleTexts => ParseResult.confidence_score = ExpectedScore(text)

\* a text was parsed in which the last pattern matches first in the text (90)
\* and the third pattern matches later (82): the score is 0.82
C14_Witness ==
    /\ ParsedStr
    /\ ParseInput.text = Lit("About 90 percent sure. Confidence: 82")
    /\ PatternsMatching(ParseInput.text) = {3, 4}
    /\ ParseResult.confidence_score = Some(82)

(***************************************************************************)
(* Properties of _get_suggested_actions, checked under SpecSuggest         *)
(***************************************************************************)
Suggested == pc = "suggest_returned"

\* the keyword sets and their lists, in priority order
KeywordSets == << disease_keywords, market_keywords, scheme_keywords, weather_keywords >>
SuggestionLists ==
    << disease_suggestions, market_suggestions, scheme_suggestions, weather_suggestions >>

\* the places in the priority order of the sets with a keyword in the message
SetsMatching(message) ==
    { k \in 1..Len(KeywordSets) :
        \E w \in 1..Len(KeywordSets[k]) : Contains(KeywordSets[k][w], lower(message)) }

\* C15: the result is the 3-item list of the first keyword set, in the order
\* disease/pest, market, scheme/subsidy, weather, that has a keyword contained
\* in the lower-cased message, whatever other sets match, and the default
\* 3-item list when no set matches.
C15_FirstMatchingKeywordSet ==
    Suggested =>
        LET matching == SetsMatching(request.message)
            result == suggested_actions[1]
        IN /\ Len(result) = 3
           /\ IF matching = {}
              THEN result = << Lit("Upload crop images for analysis"), Lit("Check market prices"),
                               Lit("Explore government schemes") >>
              ELSE result = SuggestionLists[CHOOSE k \in matching : \A m \in matching : k <= m]
           /\ request.message = Lit("My tomato leaves have yellow spots") =>
                 result = << Lit("Upload an image of the affected plant"),
                             Lit("Check market prices for your crop"),
                             Lit("Look for organic treatment options") >>

\* a message with a market keyword first and a disease keyword second got the
\* disease list
C15_Witness ==
    /\ Suggested
    /\ request.message = Lit("mandi SPOTS")
    /\ SetsMatching(request.message) = {1, 2}
    /\ suggested_actions = Some(disease_suggestions)

(***************************************************************************)
(* Properties of the image-analysis request, checked under SpecImage       *)
(***************************************************************************)
\* the image request has been answered after its model call failed
ImageModelFailed ==
    /\ pc = "responded"
    /\ request.route = "analyze-image"
    /\ llm_outcome # None
    /\ ~llm_outcome[1].ok

\* C3 as stated: a failure of the model call during an image-analysis request
\* reaches the caller as a failure, with no structured result.
C3_FailurePropagated ==
    ImageModelFailed =>
        /\ http_response.status # 200
        /\ http_response.body = None

\* C3, amended: a failure of the model call during an image-analysis request
\* is caught by the service; the caller gets a 200 response whose analysis is
\* the apology text naming the error, with no disease, score 0.0, the three
\* fixed recommended actions and no remedies.
C3_FailureAnsweredWithFallback ==
    ImageModelFailed =>
        /\ http_response.status = 200
        /\ http_response.detail = EmptyStr
        /\ http_response.body =
              << [ analysis |->
                     Lit("I'm having trouble analyzing the image right now. Error: ")
                     \o llm_outcome[1].error
                     \o Lit(". Please try uploading a clearer image or describe the issue you're seeing with your crops."),
                   disease_detected |-> <<>>,
                   confidence_score |-> <<0>>,
                   recommended_actions |-> << Lit("Upload a clearer image"),
                                              Lit("Describe the problem in text"),
                                              Lit("Check image size and quality") >>,
                   local_remedies |-> <<>> ] >>

\* the model call of an accepted image request failed and the request was answered
C3_Witness ==
    /\ ImageModelFailed
    /\ llm_calls = 1
    /\ llm_outcome[1].error = Lit("Request timed out.")
    /\ http_response.status = 200

(***************************************************************************)
(* Properties of the conversation context, checked under SpecChat          *)
(***************************************************************************)
\* the message list of a chat request has been assembled and sent
ChatBuilt == request.route = "message" /\ pc \in {"awaiting", "responded"}

\* the entries of the caller's history that fall in the window of 5
WindowSize == IF Len(request.conversation_history) < 5
              THEN Len(request.conversation_history) ELSE 5
WindowEntry(i) ==
    request.conversation_history[Len(request.conversation_history) - WindowSize + i]

\* the role a LangChain message stands for
RoleOfMessage(m) ==
    CASE m.type = "human" -> Lit("user")
      [] m.type = "ai" -> Lit("assistant")
      [] m.type = "system" -> Lit("system")

FinalMessage == messages[Len(messages)]

\* C6 as stated: every history entry in the window appears with the role it
\* came with, whatever that role is.
C6_RolesPassedThrough ==
    ChatBuilt =>
        \A i \in 1..WindowSize : RoleOfMessage(messages[1 + i]) = WindowEntry(i).role

\* C6, amended: a history entry in the window whose role is "user" appears as
\* a user message; an entry with any other role (assistant, system, malformed)
\* appears as an assistant message; the content is kept either way.
C6_UserOrElseAssistant ==
    ChatBuilt =>
        \A i \in 1..WindowSize :
            /\ RoleOfMessage(messages[1 + i])
                 = (IF WindowEntry(i).role = Lit("user") THEN Lit("user") ELSE Lit("assistant"))
            /\ messages[1 + i].content = WindowEntry(i).content

\* a history entry with role "system" is in the window and was sent as an
\* assistant message
C6_Witness ==
    /\ ChatBuilt
    /\ \E i \in 1..WindowSize :
          /\ WindowEntry(i).role = Lit("system")
          /\ messages[1 + i].type = "ai"

\* C7 as stated: for every language code other than "en" the final user
\* message is the input with a directive put before it.
C7_DirectiveForEveryOtherLanguage ==
    (ChatBuilt /\ request.language # None /\ request.language # Some(Lit("en"))) =>
        /\ FinalMessage.type = "human"
        /\ Len(FinalMessage.content) > Len(request.message)
        /\ SubSeq(FinalMessage.content,
                  Len(FinalMessage.content) - Len(request.message) + 1,
                  Len(FinalMessage.content)) = request.message

\* C7, amended: among the language codes other than "en", only "kn" gets a
\* directive: the final user message is then the input prefixed with
\* "[Please respond in Kannada language] "; for any other code it is the
\* input unchanged.
C7_DirectiveOnlyForKannada ==
    (ChatBuilt /\ request.language # None /\ request.language # Some(Lit("en"))) =>
        /\ FinalMessage.type = "human"
        /\ FinalMessage.content =
              (IF request.language[1] = Lit("kn")
               THEN Lit("[Please respond in Kannada language] ") \o request.message
               ELSE request.message)

\* a request in Hindi was sent with its message unchanged
C7_Witness ==
    /\ ChatBuilt
    /\ request.language = Some(Lit("hi"))
    /\ FinalMessage.content = request.message

\* C8: with language "kn" the final user message begins with the Kannada
\* directive, followed by the input; with language "en" or no language it is
\* the input.
C8_KannadaPrefix ==
    ChatBuilt =>
        /\ request.language = Some(Lit("kn")) =>
              /\ SubSeq(FinalMessage.content, 1, 37) = Lit("[Please respond in Kannada language] ")
              /\ SubSeq(FinalMessage.content, 38, Len(FinalMessage.content)) = request.message
        /\ request.language \in {Some(Lit("en")), None} =>
              FinalMessage.content = request.message

\* a request in Kannada was sent with the directive before its message
C8_Witness ==
    /\ ChatBuilt
    /\ request.language = Some(Lit("kn"))
    /\ Len(FinalMessage.content) = Len(request.message) + 37
    /\ FinalMessage.content # request.message

\* the caller's history and the part of it that the window of 5 leaves out
History == request.conversation_history
Dropped == Len(History) - WindowSize

\* C16: of a history of n entries, the last min(n, 5) appear in the message
\* list, in their order, and none of the earlier ones appears anywhere in it.
C16_OnlyLastFiveInOrder ==
    ChatBuilt =>
        /\ Len(messages) - 2 = WindowSize
        /\ \A i \in 1..WindowSize :
              messages[1 + i].content = History[Dropped + i].content
        /\ \A j \in 1..Dropped :
              \A k \in 1..Len(messages) : messages[k].content # History[j].content

\* a history of 6 turns was sent: turns 2 to 6 are in the list, turn 1 is not
C16_Witness ==
    /\ ChatBuilt
    /\ Len(History) = 6
    /\ Len(messages) = 7
    /\ messages[2].content = Lit("turn 2")
    /\ messages[6].content = Lit("turn 6")

\* C17: the message list is one system message carrying the instruction text,
\* then one user or assistant message per entry of the window, then one user
\* message; 2 + min(n, 5) messages in all.
C17_SystemHistoryUser ==
    ChatBuilt =>
        /\ Len(messages) = 2 + WindowSize
        /\ messages[1] = [type |-> "system", content |-> system_prompt]
        /\ \A i \in 2..(Len(messages) - 1) :
              /\ messages[i].type \in {"human", "ai"}
              /\ messages[i].content = WindowEntry(i - 1).content
        /\ FinalMessage.type = "human"
        /\ \E k \in 0..Len(FinalMessage.content) :
              SubSeq(FinalMessage.content, k + 1, Len(FinalMessage.content)) = request.message

\* a history of 3 turns was sent as 5 messages, an assistant turn among them
C17_Witness ==
    /\ ChatBuilt
    /\ Len(History) = 3
    /\ Len(messages) = 5
    /\ messages[1].type = "system"
    /\ messages[3].type = "ai"
    /\ messages[5].type = "human"

\* C18: no step of a chat request changes the caller's history list: it has
\* the same entries, in the same order, with the same roles and contents.
C18_HistoryNotMutated ==
    [][request.route = "message" =>
          request'.conversation_history = request.conversation_history]_vars

\* a history longer than the window was sent and answered: 5 of its 6 entries
\* went into the message list, and the list still has its 6 entries
C18_Witness ==
    /\ request.route = "message"
    /\ pc = "responded"
    /\ Len(messages) = 2 + HistoryWindow
    /\ Len(request.conversation_history) = 6
    /\ \A i \in 1..6 : request.conversation_history[i].content = Lit("turn ") \o Digit(i)

\* the awaited call of a chat request raised
ChatModelFailed ==
    /\ request.route = "message"
    /\ pc = "responded"
    /\ ~llm_outcome[1].ok

\* C19: a chat request whose model call fails is answered with a 500 that
\* carries no response text, conversation id or suggested actions; the
\* suggestion heuristic has not run and the model was called once.
C19_ChatFailureIs500 ==
    ChatModelFailed =>
        /\ http_response.status = 500
        /\ http_response.body = None
        /\ http_response.detail = Lit("Failed to process message: ") \o llm_outcome[1].error
        /\ suggested_actions = None
        /\ llm_calls = 1

\* a chat request in Kannada with a history ended in a 500 on a timeout
C19_Witness ==
    /\ ChatModelFailed
    /\ llm_outcome[1].error = Lit("Request timed out.")
    /\ request.language = Some(Lit("kn"))
    /\ Len(messages) > 2
    /\ http_response.status = 500

(***************************************************************************)
(* Properties of both routes, checked under SpecRequests                   *)
(***************************************************************************)
\* the request has reached the service: the route has passed its own checks
\* and called process_chat_message or analyze_crop_image
ReachedCore ==
    /\ pc # "received"
    /\ request.route = "analyze-image" => image_rejection(request.image) = None

\* C20: a chat or image request that reaches the service has invoked the
\* model exactly once, while it waits and after it is answered, whether the
\* call succeeded or failed; a request that does not reach it has not invoked
\* the model; no step makes a second invocation.
C20_ModelInvokedOnce ==
    /\ llm_calls = (IF ReachedCore THEN 1 ELSE 0)
    /\ pc = "awaiting" => ReachedCore
    /\ llm_outcome # None => (ReachedCore /\ pc = "responded")

(***************************************************************************)
(* Properties of the image route and of the request composer, SpecImage    *)
(***************************************************************************)
\* the payload cannot be decoded: it does not open as an image, or it opens
\* and its pixel data fails to load
UndecodableImage(image) == ~image.opens \/ image.load_error # None

\* C22: an image request whose payload cannot be decoded is answered with the
\* 400 "Invalid image data" without reaching the service; it never waits for
\* the model, no message list is built for it and the model is not invoked.
C22_UndecodableImageIs400 ==
    (request.route = "analyze-image" /\ UndecodableImage(request.image)) =>
        /\ pc # "awaiting"
        /\ messages = <<>>
        /\ llm_calls = 0
        /\ llm_outcome = None
        /\ pc = "responded" =>
              /\ http_response.status = 400
              /\ http_response.detail = Lit("Invalid image data")
              /\ http_response.body = None
              /\ analysis_result = NoResult

\* the message list of an image request has been composed and sent
ImageComposed == request.route = "analyze-image" /\ messages # <<>>

\* the parts of the one user message of an image request
ImageParts == messages[2].content

\* C25: the composer yields one user message of two parts: first a text part,
\* which is the instruction, followed by the query when the query is not
\* empty, all behind the directive when the language is "kn"; then an image
\* part that embeds the image.
C25_OneMessageTwoParts ==
    ImageComposed =>
        /\ { i \in 1..Len(messages) : messages[i].type = "human" } = {2}
        /\ Len(messages) = 2
        /\ Len(ImageParts) = 2
        /\ ImageParts[1].type = "text"
        /\ ImageParts[1].text
             = (IF request.language = Some(Lit("kn"))
                THEN Lit("[Please respond in Kannada language] ") ELSE EmptyStr)
               \o image_analysis_prompt
               \o (IF request.query = EmptyStr THEN EmptyStr ELSE Lit("\n\nUser Query: ") \o request.query)
        /\ ImageParts[2].type = "image_url"
        /\ ImageParts[2].image_url.url[1] = "data:image/jpeg;base64"
        /\ ImageParts[2].image_url.url[2] = request.image.id

\* an image request in Kannada with an empty query was composed: the text
\* part is the directive and the instruction, with no query section
C25_Witness ==
    /\ ImageComposed
    /\ request.language = Some(Lit("kn"))
    /\ request.query = EmptyStr
    /\ ImageParts[1].text = Lit("[Please respond in Kannada language] ") \o image_analysis_prompt
    /\ ImageParts[2].image_url.url[2] = "leaf"

\* a chat request has been answered with a reply
ChatAnswered ==
    /\ request.route = "message"
    /\ pc = "responded"
    /\ http_response.status = 200

\* C26: the suggested actions of an answered chat request are those that the
\* same message gets with language "en", whatever the language of the request.
C26_SuggestionsIgnoreLanguage ==
    ChatAnswered =>
        /\ http_response.body[1].suggested_actions
             = chat_result(request.message, Some(Lit("en")), EmptyStr).suggested_actions
        /\ suggested_actions = Some(http_response.body[1].suggested_actions)

\* a request in Kannada about yellow spots was answered with the suggestions
\* for diseases, the heuristic having run on the message behind the directive
C26_Witness ==
    /\ ChatAnswered
    /\ request.language = Some(Lit("kn"))
    /\ request.message = Lit("My tomato leaves have yellow spots")
    /\ FinalMessage.content # request.message
    /\ suggested_actions = Some(disease_suggestions)

\* a text of the inputs for which term k of the vocabulary is reported
Reportable(k) ==
    \E t \in VocabularyTexts \cup DiseaseTexts :
        DetectDisease(lower(t)) = Some(TitledDiseases[k])

\* C27 as stated: every vocabulary term that occurs in a parsed text can be
\* reported: some text gives it, title-cased, as disease_detected.  Each of
\* the 17 terms occurs in a text of the inputs.
C27_EveryTermReportable ==
    ParsedStr => \A k \in TermsOccurring(ParseInput.text) : Reportable(k)

(***************************************************************************)
(* Properties of the scheme search, checked under SpecSchemes              *)
(***************************************************************************)
Searched == request.route = "schemes/search" /\ pc = "responded"
Found == http_response.body[1].schemes

\* C29 as stated: with a category filter every returned scheme has that
\* category, whichever pass supplied it; at most 5 schemes are returned, none
\* twice, and total_found counts the matches before the cut to 5.
C29_CategoryFilterHolds ==
    Searched =>
        /\ CategoryGiven(request.category) =>
              \A i \in 1..Len(Found) : Found[i].category = request.category[1]
        /\ Len(Found) <= 5
        /\ \A i, j \in 1..Len(Found) : Found[i].name = Found[j].name => i = j
        /\ http_response.body[1].total_found >= Len(Found)
        /\ http_response.body[1].total_found <= 5 =>
              http_response.body[1].total_found = Len(Found)

(***************************************************************************)
(* Properties of the speech routes, checked under SpecSpeech               *)
(***************************************************************************)
\* the speech-to-text requests among the tasks
Recognitions == { t \in 1..MaxTasks : tasks[t].request.route = "speech-to-text" }

\* the recognize_once calls made so far for request t
Attempts(t) == tasks[t].attempts

\* C23 as stated: for a speech-to-text request with empty audio no recogniser
\* is ever run, and the request is answered with an error.
C23_EmptyAudioRejected ==
    \A t \in Recognitions :
        b64decode(tasks[t].request.audio_base64) = [raised |-> None, bytes |-> 0] =>
            /\ Attempts(t) = <<>>
            /\ tasks[t].pc = "responded" => tasks[t].http_response.status >= 400

\* C24 as stated: once a recognition attempt of a request has raised, no
\* further attempt is made for that request.
C24_NoAttemptAfterRaise ==
    \A t \in Recognitions :
        \A i \in 1..Len(Attempts(t)) :
            Attempts(t)[i].result.reason = "raised" => i = Len(Attempts(t))

\* C24, amended: a request makes at most two attempts, the second one only
\* after the first, with format, has raised or has not recognised any speech;
\* a request whose first attempt raised is not answered before the second;
\* when the second attempt raises the request is answered with a 500 that
\* names the error.
C24_OneFallbackThenPropagated ==
    \A t \in Recognitions :
        /\ Len(Attempts(t)) <= 2
        /\ Len(Attempts(t)) >= 1 => Attempts(t)[1].method = "format"
        /\ Len(Attempts(t)) = 2 =>
              /\ Attempts(t)[2].method = "fallback"
              /\ \/ Attempts(t)[1].result.reason # "RecognizedSpeech"
                 \/ strip(Attempts(t)[1].result.text) = EmptyStr
              /\ tasks[t].pc = "responded"
              /\ Attempts(t)[2].result.reason = "raised" =>
                    /\ tasks[t].http_response.status = 500
                    /\ tasks[t].http_response.body = None
                    /\ tasks[t].http_response.detail
                         = Lit("Speech recognition failed: ") \o Attempts(t)[2].result.error
        /\ (Len(Attempts(t)) = 1 /\ Attempts(t)[1].result.reason = "raised") =>
              tasks[t].pc = "fallback"

\* both attempts of a request raised and the request was answered with a 500
C24_Witness ==
    \E t \in Recognitions :
        /\ Len(Attempts(t)) = 2
        /\ Attempts(t)[1].result.reason = "raised"
        /\ Attempts(t)[2].result.reason = "raised"
        /\ tasks[t].pc = "responded"
        /\ tasks[t].http_response.status = 500

\* C30: every recogniser of a request is created with the language that the
\* request asked for, mapped to its full code, whatever other speech requests
\* the process serves before, between and after its steps.
C30_OwnRecognitionLanguage ==
    \A t \in Recognitions :
        \A i \in 1..Len(Attempts(t)) :
            Attempts(t)[i].language = Some(language_mappings(tasks[t].request.language))

\* two requests in different languages have both been recognised, each in its
\* own language, the second having overwritten the language set by the first
C30_Witness ==
    \E t, u \in Recognitions :
        /\ tasks[t].request.language = Lit("kn")
        /\ tasks[u].request.language = Lit("en-US")
        /\ tasks[t].pc = "responded"
        /\ tasks[u].pc = "responded"
        /\ Len(Attempts(t)) = 2
        /\ Attempts(t)[2].language = Some(Lit("kn-IN"))
        /\ Len(Attempts(u)) >= 1
        /\ Attempts(u)[1].language = Some(Lit("en-US"))
        /\ speech_config.speech_recognition_language = Some(Lit("en-US"))

(***************************************************************************)
(* Properties of concurrent chat and image requests, checked under         *)
(* SpecServe                                                               *)
(***************************************************************************)
\* the requests that have called get_langchain_service
Served == { t \in 1..MaxTasks : tasks[t].got # None }

\* the requests that the model call has completed for
ModelAnswered == { t \in 1..MaxTasks : tasks[t].llm_outcome # None }

\* C21: whatever requests the process serves in between, the service instance
\* that the requests share keeps nothing of any of them, the message list of a
\* request is the one built from its own payload, and its response is the one
\* that its own payload and the outcome of its own model call give; a request
\* answered without a model call has the rejection of its own image, the
\* error of the service constructor, or the fallback for its own image.
C21_ResponseFromOwnRequest ==
    /\ langchain_service # None => langchain_service[1].memory = <<>>
    /\ \A t \in 1..MaxTasks :
          /\ tasks[t].pc = "received" =>
                tasks[t].messages = <<>> /\ tasks[t].http_response = NoResponse
          /\ tasks[t].pc = "awaiting" =>
                /\ tasks[t].messages = request_messages(tasks[t].request)
                /\ tasks[t].http_response = NoResponse
          /\ t \in ModelAnswered =>
                /\ tasks[t].messages = request_messages(tasks[t].request)
                /\ tasks[t].http_response
                     = request_response(tasks[t].request, tasks[t].llm_outcome[1])
          /\ (tasks[t].pc = "responded" /\ t \notin ModelAnswered) =>
                /\ tasks[t].messages = <<>>
                /\ IF request_rejection(tasks[t].request) # None
                   THEN tasks[t].http_response = request_rejection(tasks[t].request)[1]
                   ELSE IF construction_error(settings) # None
                   THEN tasks[t].http_response
                          = HTTPException(HTTP_SERVER_ERROR,
                                          failure_prefix(tasks[t].request.route)
                                            \o construction_error(settings)[1])
                   ELSE /\ tasks[t].request.route = "analyze-image"
                        /\ analyze_before_await(tasks[t].request.image) # None
                        /\ tasks[t].http_response
                             = analyze_image_response(
                                   analyze_before_await(tasks[t].request.image)[1])

\* a chat request and an image request were suspended at the model call at the
\* same time: the image request, which came second and reused the service, has
\* its answer while the chat request, which constructed it, is still waiting
C21_Witness ==
    \E t, u \in 1..MaxTasks :
        /\ tasks[t].request.route = "message"
        /\ tasks[t].pc = "awaiting"
        /\ tasks[t].got # None
        /\ tasks[t].got[1].constructing
        /\ tasks[u].request.route = "analyze-image"
        /\ tasks[u].pc = "responded"
        /\ u \in ModelAnswered
        /\ ~tasks[u].got[1].constructing
        /\ tasks[u].http_response.status = 200

\* C28: at most one LangChainService is constructed, by the one request that
\* found the global unset, and every request that gets a service gets that
\* instance; with the API key or the endpoint missing nothing is constructed,
\* the global stays unset, and every request that reaches
\* get_langchain_service runs into the constructor's error and answers 500.
C28_OneServiceConstructed ==
    /\ constructed <= 1
    /\ (langchain_service = None) <=> (constructed = 0)
    /\ Cardinality({ t \in Served : tasks[t].got[1].constructing }) = constructed
    /\ \A t \in Served :
          tasks[t].got[1].raised = None =>
              /\ tasks[t].got[1].service = Some(LangChainService(1))
              /\ langchain_service = tasks[t].got[1].service
    /\ construction_error(settings) = None =>
          \A t \in Served : tasks[t].got[1].raised = None
    /\ construction_error(settings) # None =>
          /\ langchain_service = None
          /\ \A t \in 1..MaxTasks :
                (tasks[t].pc # "received" /\ request_rejection(tasks[t].request) = None) =>
                    /\ t \in Served
                    /\ tasks[t].got[1].raised = construction_error(settings)
                    /\ tasks[t].got[1].service = None
                    /\ tasks[t].pc = "responded"
                    /\ tasks[t].http_response
                         = HTTPException(HTTP_SERVER_ERROR,
                                         failure_prefix(tasks[t].request.route)
                                           \o construction_error(settings)[1])

\* two requests are suspended at the model call with the same service, which
\* the first of them constructed and the second found in the global
C28_Witness ==
    \E t, u \in Served :
        /\ tasks[t].pc = "awaiting"
        /\ tasks[u].pc = "awaiting"
        /\ tasks[t].got[1].constructing
        /\ ~tasks[u].got[1].constructing
        /\ tasks[u].got[1].service = tasks[t].got[1].service
        /\ constructed = 1

====
